---- MODULE Spec2Model ----
(***************************************************************************)
(* A model of the data-access core of pliantdb / bonsaidb:                 *)
(*   - the key codec (core/src/schema/view/map.rs): the Key trait and its   *)
(*     implementations for the primitive integers, Vec<u8>, String, () and  *)
(*     Option<T>;                                                           *)
(*   - the Connection facade (bonsaidb-core/src/connection.rs): insert,     *)
(*     update, delete and the view query, on top of apply_transaction.      *)
(***************************************************************************)
EXTENDS Integers, Sequences, FiniteSets, TLC

VARIABLES
    \* ---- key codec ----
    keyType,    \* the key type T under test
    keyA,       \* a value of T
    keyB,       \* a second value of T
    encA,       \* result of keyA.as_big_endian_bytes()
    encB,       \* result of keyB.as_big_endian_bytes()
    decA,       \* result of T::from_big_endian_bytes(encA)
    pc,         \* position of the codec exercise
    \* ---- database ----
    docs,       \* the collection: document id -> stored document
    nextId,     \* the id the engine gives the next Insert without an id
    lastTx,     \* id of the last committed transaction (0: none)
    executed,   \* the log of Executed records
    index,      \* the entries of the view by_contents
    indexedTx,  \* the transaction the view index reflects
    \* ---- callers ----
    cdoc,       \* each client's document (header and contents), if it holds one
    res,        \* each client's call to the connection: its return value
    query,      \* each client's view query: idle, building, pending or returned
    \* ---- decoding stored bytes ----
    raw,        \* a byte string read back from a view's tree
    decRaw,     \* result of T::from_big_endian_bytes(raw)
    reEnc,      \* result of as_big_endian_bytes() on the key decoded from raw
    ser,        \* result of Map::serialized() of the entry with key keyA
    \* ---- key ranges ----
    range,      \* a Range<T>
    rangeSer,   \* result of range.as_big_endian_bytes()
    rangeDe,    \* result of Range::deserialize::<T>() on rangeSer
    \* ---- listing of executed transactions ----
    logLen,     \* number of Executed records of the database listed
    listing,    \* the last call of list_executed_transactions and its result
    \* ---- storage ----
    databases,  \* the databases of the storage: their names
    storageRes, \* the last call of create_database / delete_database
    \* ---- key-value store ----
    kv,         \* key -> entry (value and expiration), if any
    now,        \* the clock expirations are compared with
    kvRes,      \* the last call of set
    \* ---- key filters of queries ----
    qkey,       \* a QueryKey<K>
    qser,       \* result of qkey.serialized()
    qde,        \* result of deserialized::<K>() on qser
    qraw,       \* a QueryKey<Bytes> as it arrives at the server
    qrawDe,     \* result of deserialized::<K>() on qraw
    \* ---- std ranges ----
    stdRange,    \* a range of std::ops given to with_key_range
    \* ---- stored entries read back ----
    rawValue,   \* the value bytes of the entry whose key bytes are raw
    deser,      \* result of Serialized::deserialized() of that entry
    \* ---- the List future ----
    future,     \* a List future of Collection::list: its state
    listRequests \* the calls of Connection::list made so far

codecVars == <<keyType, keyA, keyB, encA, encB, decA, pc>>

dbVars == <<docs, nextId, lastTx, executed, index, indexedTx>>

clientVars == <<cdoc, res, query>>

rawVars == <<raw, decRaw, reEnc, ser>>

rangeVars == <<range, rangeSer, rangeDe>>

listVars == <<logLen, listing>>

storageVars == <<databases, storageRes>>

kvVars == <<kv, now, kvRes>>

qkeyVars == <<qkey, qser, qde, qraw, qrawDe>>

\* what only the specifications of their own change
stdVars == <<stdRange>>

entryVars == <<rawValue, deser>>

futureVars == <<future, listRequests>>

moreVars == <<qkeyVars, stdVars, entryVars, futureVars>>

\* what the document and codec operations do not touch
sideVars == <<rawVars, rangeVars, listVars, storageVars, kvVars, moreVars>>

vars == <<keyType, keyA, keyB, encA, encB, decA, pc,
          docs, nextId, lastTx, executed, index, indexedTx, cdoc, res, query,
          raw, decRaw, reEnc, ser, range, rangeSer, rangeDe, logLen, listing,
          databases, storageRes, kv, now, kvRes,
          qkey, qser, qde, qraw, qrawDe,
          stdRange,
          rawValue, deser,
          future, listRequests>>

\* ------------------------------------------------------------------------
\* Bounds
\* ------------------------------------------------------------------------

\* longest Vec<u8> key drawn
MaxBytesLen == 2

\* longest String key drawn, in chars
MaxStrLen == 2

\* longest byte string read back and decoded
MaxRawLen == 2

\* transactions committed in one run
MaxTx == 2

\* largest document id of the collection
MaxDocId == 2

\* how far past the default and the hard limit the listed log reaches
MaxOver == 1

\* calls one listing is continued over
MaxPages == 3

\* largest limit and longest key list given to a view builder
MaxLimit == 1

\* databases one storage holds
MaxDatabases == 2

\* last instant of the clock of the key-value store
MaxTime == 2

\* calls of set in one run
MaxSets == 2

\* most keys of a QueryKey::Multiple
MaxKeys == 2

\* most polls of one List future
MaxPolls == 3

\* ------------------------------------------------------------------------
\* Results (anyhow::Result, or a panic of the call)
\* ------------------------------------------------------------------------

Ok(x) == [st |-> "ok", val |-> x]

Err(e) == [st |-> "err", err |-> e]

Panic == [st |-> "panic"]

NotRun == [st |-> "none"]

\* ------------------------------------------------------------------------
\* Key types
\* ------------------------------------------------------------------------

IntType(signed, w) == [k |-> "int", signed |-> signed, w |-> w]

I8 == IntType(TRUE, 1)

U8 == IntType(FALSE, 1)

I16 == IntType(TRUE, 2)

U16 == IntType(FALSE, 2)

BytesType == [k |-> "bytes"]

StringType == [k |-> "string"]

UnitType == [k |-> "unit"]

OptionType(T) == [k |-> "option", of |-> T]

None == [some |-> FALSE]

Some(x) == [some |-> TRUE, val |-> x]

Unit == "()"

Pow2(n) == 2 ^ n

\* $type::MIN and $type::MAX
IntMin(T) == IF T.signed THEN 0 - Pow2(8 * T.w - 1) ELSE 0

IntMax(T) == IF T.signed THEN Pow2(8 * T.w - 1) - 1 ELSE Pow2(8 * T.w) - 1

\* the integer key types modelled: the macro impl_key_for_primitive is the same
\* code for every width, so the 8- and 16-bit instances stand for all of them
IntTypes == {I8, U8, I16, U16}

IntSampleBase ==
    {-32768, -32767, -257, -256, -255, -129, -128, -127, -2, -1, 0, 1, 2,
     126, 127, 128, 129, 254, 255, 256, 257, 32766, 32767, 32768, 65534, 65535}

IntSamples(T) == {v \in IntSampleBase : IntMin(T) <= v /\ v <= IntMax(T)}

\* bytes drawn for Vec<u8> keys
ByteSamples == {0, 127, 128, 255}

\* chars drawn for String keys: one of each UTF-8 length ('a', U+00FF, U+0800, U+10000)
CharSamples == {97, 255, 2048, 65536}

SeqsUpTo(S, n) == UNION {[1..m -> S] : m \in 0..n}

RECURSIVE Values(_)
Values(T) ==
    CASE T.k = "int" -> IntSamples(T)
      [] T.k = "bytes" -> SeqsUpTo(ByteSamples, MaxBytesLen)
      [] T.k = "string" -> SeqsUpTo(CharSamples, MaxStrLen)
      [] T.k = "unit" -> {Unit}
      [] T.k = "option" -> {None} \cup {Some(x) : x \in Values(T.of)}

KeyTypes ==
    IntTypes \cup {BytesType, StringType, UnitType}
    \cup {OptionType(I8), OptionType(U16), OptionType(BytesType),
          OptionType(StringType), OptionType(UnitType), OptionType(OptionType(I8))}

\* ------------------------------------------------------------------------
\* Byte strings
\* ------------------------------------------------------------------------

MinOf(a, b) == IF a <= b THEN a ELSE b

\* lexicographic order of byte slices (<[u8] as Ord>::cmp)
LexLess(x, y) ==
    \E i \in 1..(MinOf(Len(x), Len(y)) + 1) :
        /\ \A j \in 1..(i - 1) : x[j] = y[j]
        /\ \/ i > Len(x) /\ i <= Len(y)
           \/ i <= Len(x) /\ i <= Len(y) /\ x[i] < y[i]

\* $type::to_be_bytes: the two's complement representation, most significant byte first
to_be_bytes(v, w) ==
    LET u == v % Pow2(8 * w)
    IN  [i \in 1..w |-> (u \div Pow2(8 * (w - i))) % 256]

RECURSIVE BeValue(_)
BeValue(bytes) ==
    IF Len(bytes) = 0 THEN 0
    ELSE 256 * BeValue(SubSeq(bytes, 1, Len(bytes) - 1)) + bytes[Len(bytes)]

\* $type::from_be_bytes on an array of exactly w bytes
from_be_bytes(bytes, T) ==
    LET u == BeValue(bytes)
    IN  IF T.signed /\ u >= Pow2(8 * T.w - 1) THEN u - Pow2(8 * T.w) ELSE u

\* the UTF-8 encoding of one char
Utf8Char(c) ==
    IF c < 128 THEN <<c>>
    ELSE IF c < 2048 THEN <<192 + (c \div 64), 128 + (c % 64)>>
    ELSE IF c < 65536
        THEN <<224 + (c \div 4096), 128 + ((c \div 64) % 64), 128 + (c % 64)>>
    ELSE <<240 + (c \div 262144), 128 + ((c \div 4096) % 64),
           128 + ((c \div 64) % 64), 128 + (c % 64)>>

\* str::as_bytes: the UTF-8 bytes of a string (a sequence of chars)
RECURSIVE as_bytes(_)
as_bytes(s) ==
    IF Len(s) = 0 THEN <<>> ELSE Utf8Char(s[1]) \o as_bytes(Tail(s))

IsCont(b) == 128 <= b /\ b <= 191

\* the char starting at bytes[i] and its length, or len 0 when the bytes are
\* not well-formed UTF-8 there (overlong forms, surrogates and values above
\* U+10FFFF are rejected)
Utf8At(bytes, i) ==
    LET n == Len(bytes)
        b1 == bytes[i]
    IN  IF b1 < 128 THEN [len |-> 1, c |-> b1]
        ELSE IF 194 <= b1 /\ b1 <= 223 THEN
            IF i + 1 <= n /\ IsCont(bytes[i + 1])
            THEN [len |-> 2, c |-> (b1 - 192) * 64 + (bytes[i + 1] - 128)]
            ELSE [len |-> 0, c |-> 0]
        ELSE IF 224 <= b1 /\ b1 <= 239 THEN
            IF /\ i + 2 <= n
               /\ IsCont(bytes[i + 1])
               /\ IsCont(bytes[i + 2])
               /\ (b1 = 224 => bytes[i + 1] >= 160)
               /\ (b1 = 237 => bytes[i + 1] <= 159)
            THEN [len |-> 3,
                  c |-> (b1 - 224) * 4096 + (bytes[i + 1] - 128) * 64 + (bytes[i + 2] - 128)]
            ELSE [len |-> 0, c |-> 0]
        ELSE IF 240 <= b1 /\ b1 <= 244 THEN
            IF /\ i + 3 <= n
               /\ IsCont(bytes[i + 1])
               /\ IsCont(bytes[i + 2])
               /\ IsCont(bytes[i + 3])
               /\ (b1 = 240 => bytes[i + 1] >= 144)
               /\ (b1 = 244 => bytes[i + 1] <= 143)
            THEN [len |-> 4,
                  c |-> (b1 - 240) * 262144 + (bytes[i + 1] - 128) * 4096
                        + (bytes[i + 2] - 128) * 64 + (bytes[i + 3] - 128)]
            ELSE [len |-> 0, c |-> 0]
        ELSE [len |-> 0, c |-> 0]

\* String::from_utf8: the string of the bytes, or an error when they are not UTF-8
RECURSIVE from_utf8_at(_, _)
from_utf8_at(bytes, i) ==
    IF i > Len(bytes) THEN Ok(<<>>)
    ELSE LET d == Utf8At(bytes, i)
         IN  IF d.len = 0 THEN Err("FromUtf8Error")
             ELSE LET rest == from_utf8_at(bytes, i + d.len)
                  IN  IF rest.st = "ok" THEN Ok(<<d.c>> \o rest.val) ELSE rest

from_utf8(bytes) == from_utf8_at(bytes, 1)

\* ------------------------------------------------------------------------
\* The Key trait and its implementations
\* ------------------------------------------------------------------------

\* impl Key for Vec<u8>
Vec_as_big_endian_bytes(v) == Ok(v)

Vec_from_big_endian_bytes(bytes) == Ok(bytes)

\* impl Key for String
String_as_big_endian_bytes(v) == Ok(as_bytes(v))

String_from_big_endian_bytes(bytes) == from_utf8(bytes)

\* impl Key for ()
Unit_as_big_endian_bytes(v) == Ok(<<>>)

Unit_from_big_endian_bytes(bytes) == Ok(Unit)

\* an encoder that flips the sign bit of signed values
Primitive_as_big_endian_bytes_SignFlipped(T, v) ==
    Ok(to_be_bytes(IF T.signed THEN v + Pow2(8 * T.w - 1) ELSE v, T.w))

\* impl_key_for_primitive!($type)
Primitive_as_big_endian_bytes(T, v) == Ok(to_be_bytes(v, T.w))

\* a decoder that forgets the sign of the most significant byte
Primitive_from_big_endian_bytes_Unsigned(T, bytes) ==
    IF Len(bytes) # T.w THEN Err("TryFromSliceError")
    ELSE Ok(BeValue(bytes))

Primitive_from_big_endian_bytes(T, bytes) ==
    IF Len(bytes) # T.w THEN Err("TryFromSliceError")
    ELSE Ok(from_be_bytes(bytes, T))

RECURSIVE as_big_endian_bytes(_, _)
RECURSIVE from_big_endian_bytes(_, _)

\* impl<T: Key> Key for Option<T>; the assert! panics on an empty inner encoding
Option_as_big_endian_bytes(T, v) ==
    IF v.some
    THEN LET contents == as_big_endian_bytes(T.of, v.val)
         IN  IF contents.st # "ok" THEN contents
             ELSE IF Len(contents.val) = 0 THEN Panic
             ELSE contents
    ELSE Ok(<<>>)

\* a decoder without the case of the empty byte string
Option_from_big_endian_bytes_NoNone(T, bytes) ==
    LET inner == from_big_endian_bytes(T.of, bytes)
    IN  IF inner.st = "ok" THEN Ok(Some(inner.val)) ELSE inner

Option_from_big_endian_bytes(T, bytes) ==
    IF Len(bytes) = 0 THEN Ok(None)
    ELSE LET inner == from_big_endian_bytes(T.of, bytes)
         IN  IF inner.st = "ok" THEN Ok(Some(inner.val)) ELSE inner

\* Key::as_big_endian_bytes, dispatched on the implementing type
as_big_endian_bytes(T, v) ==
    CASE T.k = "int" -> Primitive_as_big_endian_bytes(T, v)
      [] T.k = "bytes" -> Vec_as_big_endian_bytes(v)
      [] T.k = "string" -> String_as_big_endian_bytes(v)
      [] T.k = "unit" -> Unit_as_big_endian_bytes(v)
      [] T.k = "option" -> Option_as_big_endian_bytes(T, v)

\* Key::from_big_endian_bytes, dispatched on the implementing type
from_big_endian_bytes(T, bytes) ==
    CASE T.k = "int" -> Primitive_from_big_endian_bytes(T, bytes)
      [] T.k = "bytes" -> Vec_from_big_endian_bytes(bytes)
      [] T.k = "string" -> String_from_big_endian_bytes(bytes)
      [] T.k = "unit" -> Unit_from_big_endian_bytes(bytes)
      [] T.k = "option" -> Option_from_big_endian_bytes(T, bytes)

\* lexicographic order of sequences of integers (Vec<u8>: by byte; String: by char,
\* which Rust defines as the order of the code points)
SeqLess(x, y) == LexLess(x, y)

\* the natural order (Ord) of the key type T
RECURSIVE KeyLess(_, _, _)
KeyLess(T, a, b) ==
    CASE T.k = "int" -> a < b
      [] T.k = "bytes" -> SeqLess(a, b)
      [] T.k = "string" -> SeqLess(a, b)
      [] T.k = "unit" -> FALSE
      [] T.k = "option" ->
            IF ~a.some THEN b.some
            ELSE b.some /\ KeyLess(T.of, a.val, b.val)

\* ------------------------------------------------------------------------
\* Documents, transactions and errors
\* ------------------------------------------------------------------------

Clients == {"x", "y"}

DocIds == 1..MaxDocId

\* document contents (opaque to the core)
Contents == {1, 2}

CollectionName == "shop.orders"

UniqueViewName == "shop.orders.by_key"

\* the content hash of a revision
Digest(contents) == (7 * contents + 3) % 11

\* the key the unique view by_key emits for a document
UniqueKey(contents) == contents % 2

Revision(seq, contents) == [seq |-> seq, hash |-> Digest(contents)]

Header(id, revision) == [collection |-> CollectionName, id |-> id, revision |-> revision]

NoRevision == [seq |-> 0, hash |-> 0]

\* a stored document
NoDoc == [live |-> FALSE, revision |-> NoRevision, contents |-> 0]

StoredDoc(revision, contents) ==
    [live |-> TRUE, revision |-> revision, contents |-> contents]

\* a caller's document: the header and contents it holds
NoClientDoc == [has |-> FALSE, header |-> Header(0, NoRevision), contents |-> 0]

ClientDoc(header, contents) ==
    [has |-> TRUE, header |-> header, contents |-> contents]

\* Error::DocumentNotFound(collection, id)
DocumentNotFound(collection, id) ==
    [kind |-> "DocumentNotFound", collection |-> collection, id |-> id]

\* Error::DocumentConflict(collection, id)
DocumentConflict(collection, id) ==
    [kind |-> "DocumentConflict", collection |-> collection, id |-> id]

\* the violation with the two document ids exchanged
UniqueKeyViolation_Swapped(view, conflicting, existing) ==
    [kind |-> "UniqueKeyViolation", view |-> view,
     conflicting_document_id |-> existing, existing_document_id |-> conflicting]

\* Error::UniqueKeyViolation { view, conflicting_document_id, existing_document_id }
UniqueKeyViolation(view, conflicting, existing) ==
    [kind |-> "UniqueKeyViolation", view |-> view,
     conflicting_document_id |-> conflicting, existing_document_id |-> existing]

\* OperationResult::DocumentUpdated { collection, header }
DocumentUpdated(header) ==
    [kind |-> "DocumentUpdated", collection |-> header.collection, header |-> header]

\* OperationResult::DocumentDeleted { collection, id }
DocumentDeleted(collection, id) ==
    [kind |-> "DocumentDeleted", collection |-> collection, id |-> id]

OpInsert(id, contents) == [kind |-> "Insert", id |-> id, contents |-> contents]

OpUpdate(header, contents) == [kind |-> "Update", header |-> header, contents |-> contents]

OpDelete(header) == [kind |-> "Delete", header |-> header]

\* Transaction::insert(collection, id, contents): one Insert operation
Transaction_insert(collection, id, contents) == <<OpInsert(id, contents)>>

\* Transaction::update(collection, header, contents): one Update operation
Transaction_update(collection, header, contents) == <<OpUpdate(header, contents)>>

\* Transaction::delete(collection, header): one Delete operation
Transaction_delete(collection, header) == <<OpDelete(header)>>

\* ------------------------------------------------------------------------
\* The transaction engine behind Connection::apply_transaction
\* ------------------------------------------------------------------------

MaxOf(a, b) == IF a >= b THEN a ELSE b

\* the engine ran out of the ids this model draws
OutOfIds == [st |-> "bound"]

\* the unique view's check of a document about to be saved: a live document
\* with another id that emits the same key is a violation
UniqueCheck(ds, id, contents) ==
    LET clash == {j \in DocIds \ {id} :
                    ds[j].live /\ UniqueKey(ds[j].contents) = UniqueKey(contents)}
    IN  IF clash = {} THEN Ok(TRUE)
        ELSE Err(UniqueKeyViolation(UniqueViewName, id,
                                    CHOOSE j \in clash : \A k \in clash : j <= k))

\* the revision check of Update and Delete: the stored revision must be the header's
RevisionCheck(ds, header) ==
    IF ~(header.id \in DocIds) \/ ~ds[header.id].live
    THEN Err(DocumentNotFound(header.collection, header.id))
    ELSE IF ds[header.id].revision # header.revision
    THEN Err(DocumentConflict(header.collection, header.id))
    ELSE Ok(TRUE)

\* the revision following a stored one, for new contents
NextRevision(revision, contents) == Revision(revision.seq + 1, contents)

ApplyInsert(w, op) ==
    LET id == IF op.id.some THEN op.id.val ELSE w.nextId
    IN  IF ~(id \in DocIds) THEN OutOfIds
        ELSE IF w.docs[id].live THEN Err(DocumentConflict(CollectionName, id))
        ELSE LET u == UniqueCheck(w.docs, id, op.contents)
                 rev == Revision(1, op.contents)
             IN  IF u.st # "ok" THEN u
                 ELSE Ok([w |-> [docs |-> [w.docs EXCEPT ![id] = StoredDoc(rev, op.contents)],
                                 nextId |-> MaxOf(w.nextId, id + 1)],
                          result |-> DocumentUpdated(Header(id, rev))])

ApplyUpdate(w, op) ==
    LET id == op.header.id
        c == RevisionCheck(w.docs, op.header)
    IN  IF c.st # "ok" THEN c
        ELSE LET u == UniqueCheck(w.docs, id, op.contents)
                 rev == NextRevision(w.docs[id].revision, op.contents)
             IN  IF u.st # "ok" THEN u
                 ELSE Ok([w |-> [w EXCEPT !.docs[id] = StoredDoc(rev, op.contents)],
                          result |-> DocumentUpdated(Header(id, rev))])

ApplyDelete(w, op) ==
    LET id == op.header.id
        c == RevisionCheck(w.docs, op.header)
    IN  IF c.st # "ok" THEN c
        ELSE Ok([w |-> [w EXCEPT !.docs[id] = NoDoc],
                 result |-> DocumentDeleted(op.header.collection, id)])

ApplyOp(w, op) ==
    CASE op.kind = "Insert" -> ApplyInsert(w, op)
      [] op.kind = "Update" -> ApplyUpdate(w, op)
      [] op.kind = "Delete" -> ApplyDelete(w, op)

\* a transaction stopped by the error of one operation: the error, the working
\* copy as the operations before it left it, and how many those were
Aborted(r, w, applied) == [st |-> "err", err |-> r.err, w |-> w, applied |-> applied]

\* the operations of a transaction, in their listed order, on a working copy:
\* the first failure is the transaction's
RECURSIVE ApplyOps(_, _, _, _)
ApplyOps(w, ops, i, results) ==
    IF i > Len(ops) THEN Ok([w |-> w, results |-> results])
    ELSE LET r == ApplyOp(w, ops[i])
         IN  IF r.st = "bound" THEN r
             ELSE IF r.st # "ok" THEN Aborted(r, w, i - 1)
             ELSE ApplyOps(r.val.w, ops, i + 1, Append(results, r.val.result))

\* an engine that leaves a gap after every transaction id
NextTransactionId_Gap(last) == last + 2

\* the id a commit is given: the one following the last committed
NextTransactionId(last) == last + 1

\* what apply_transaction(transaction) does in the current state: Ok with the
\* state to commit and the results, or the error of the first failing operation
TryTransaction(transaction) ==
    ApplyOps([docs |-> docs, nextId |-> nextId], transaction, 1, <<>>)

\* the entry of an Executed record for one result: the document, the kind of
\* change and the sequence number of the new revision (0 for a deletion)
Change(result) ==
    IF result.kind = "DocumentUpdated"
    THEN [id |-> result.header.id, kind |-> result.kind, seq |-> result.header.revision.seq]
    ELSE [id |-> result.id, kind |-> result.kind, seq |-> 0]

\* an engine that keeps what the operations before the failing one wrote
Commit_NoRollback(out) ==
    IF out.st = "ok"
    THEN /\ docs' = out.val.w.docs
         /\ nextId' = out.val.w.nextId
         /\ lastTx' = lastTx + 1
         /\ executed' = Append(executed,
                [transaction_id |-> lastTx + 1,
                 changes |-> [k \in 1..Len(out.val.results) |-> Change(out.val.results[k])]])
    ELSE /\ docs' = out.w.docs
         /\ nextId' = out.w.nextId
         /\ UNCHANGED <<lastTx, executed>>

\* the commit point: the working copy becomes the collection, one transaction
\* id is assigned and one Executed record appended; a failure drops the working
\* copy and changes nothing
Commit(out) ==
    IF out.st = "ok"
    THEN /\ docs' = out.val.w.docs
         /\ nextId' = out.val.w.nextId
         /\ lastTx' = NextTransactionId(lastTx)
         /\ executed' = Append(executed,
                [transaction_id |-> NextTransactionId(lastTx),
                 changes |-> [k \in 1..Len(out.val.results) |-> Change(out.val.results[k])]])
    ELSE UNCHANGED <<docs, nextId, lastTx, executed>>

\* Connection::apply_transaction: Ok(results) or the error
apply_transaction(out) == IF out.st = "ok" THEN Ok(out.val.results) ELSE Err(out.err)

\* a transaction may be submitted: the caller is idle and the run's bounds allow it
CanSubmit(c, out) ==
    /\ query[c].st = "idle"
    /\ out.st # "bound"
    /\ out.st = "ok" => lastTx < MaxTx

\* ------------------------------------------------------------------------
\* The Connection facade: insert, update, delete, get
\* ------------------------------------------------------------------------

NoCall == [st |-> "none"]

\* a caller's last call: the operation, its argument, what it returned and, if
\* it committed, the id of its transaction (0 otherwise)
Call(op, arg, ret, tx) ==
    [st |-> ret.st, op |-> op, arg |-> arg, ret |-> ret,
     tx |-> IF ret.st = "ok" THEN tx ELSE 0]

\* an insert that drops the caller's id
Connection_insert_transaction_NoId(id, contents) == Transaction_insert(CollectionName, None, contents)

\* Connection::insert: the header of the DocumentUpdated result
Connection_insert_transaction(id, contents) == Transaction_insert(CollectionName, id, contents)

Connection_insert_return(results) ==
    IF results.st # "ok" THEN results
    ELSE IF results.val[1].kind = "DocumentUpdated" THEN Ok(results.val[1].header)
    ELSE Panic

\* Connection::update: the transaction of the document's header and contents; on
\* success the document's header becomes the one returned
Connection_update_transaction(doc) ==
    Transaction_update(CollectionName, doc.header, doc.contents)

\* an update that does not propagate the error of apply_transaction
Connection_update_return_IgnoreError(results) ==
    IF results.st # "ok" THEN Ok(Unit)
    ELSE IF Len(results.val) > 0 /\ results.val[1].kind = "DocumentUpdated" THEN Ok(Unit)
    ELSE Panic

Connection_update_return(results) ==
    IF results.st # "ok" THEN results
    ELSE IF Len(results.val) > 0 /\ results.val[1].kind = "DocumentUpdated" THEN Ok(Unit)
    ELSE Panic

\* an update that advances the caller's revision before the result is known
Connection_update_doc_Eager(doc, results) ==
    IF results.st = "ok" /\ Len(results.val) > 0 /\ results.val[1].kind = "DocumentUpdated"
    THEN [doc EXCEPT !.header = results.val[1].header]
    ELSE [doc EXCEPT !.header.revision = NextRevision(doc.header.revision, doc.contents)]

\* an update that leaves the caller's header as it was
Connection_update_doc_KeepHeader(doc, results) == doc

Connection_update_doc(doc, results) ==
    IF results.st = "ok" /\ Len(results.val) > 0 /\ results.val[1].kind = "DocumentUpdated"
    THEN [doc EXCEPT !.header = results.val[1].header]
    ELSE doc

\* Connection::delete
Connection_delete_transaction(header) == Transaction_delete(CollectionName, header)

\* a delete that reports success whatever apply_transaction returned
Connection_delete_return_SwallowError(results) ==
    IF results.st # "ok" THEN Ok(Unit)
    ELSE IF results.val[1].kind = "DocumentDeleted" THEN Ok(Unit)
    ELSE Panic

Connection_delete_return(results) ==
    IF results.st # "ok" THEN results
    ELSE IF results.val[1].kind = "DocumentDeleted" THEN Ok(Unit)
    ELSE Panic

\* a caller inserts a document, with or without an id, and keeps what was stored
Insert(c, id, contents) ==
    LET out == TryTransaction(Connection_insert_transaction(id, contents))
        ret == Connection_insert_return(apply_transaction(out))
    IN  /\ CanSubmit(c, out)
        /\ Commit(out)
        /\ res' = [res EXCEPT ![c] = Call("insert", [id |-> id, contents |-> contents], ret, lastTx')]
        /\ cdoc' = [cdoc EXCEPT ![c] =
                        IF ret.st = "ok" THEN ClientDoc(ret.val, contents) ELSE @]
        /\ UNCHANGED <<index, indexedTx, query, codecVars, sideVars>>

\* a caller edits the contents of the document it holds and updates it
Update(c, contents) ==
    LET doc == [cdoc[c] EXCEPT !.contents = contents]
        out == TryTransaction(Connection_update_transaction(doc))
        results == apply_transaction(out)
        ret == Connection_update_return(results)
    IN  /\ cdoc[c].has
        /\ CanSubmit(c, out)
        /\ Commit(out)
        /\ res' = [res EXCEPT ![c] =
                      Call("update", [header |-> cdoc[c].header, contents |-> contents], ret, lastTx')]
        /\ cdoc' = [cdoc EXCEPT ![c] = Connection_update_doc(doc, results)]
        /\ UNCHANGED <<index, indexedTx, query, codecVars, sideVars>>

\* a caller deletes the document it holds
Delete(c) ==
    LET doc == cdoc[c]
        out == TryTransaction(Connection_delete_transaction(doc.header))
        ret == Connection_delete_return(apply_transaction(out))
    IN  /\ cdoc[c].has
        /\ CanSubmit(c, out)
        /\ Commit(out)
        /\ res' = [res EXCEPT ![c] = Call("delete", [header |-> doc.header], ret, lastTx')]
        /\ cdoc' = [cdoc EXCEPT ![c] = IF ret.st = "ok" THEN NoClientDoc ELSE @]
        /\ UNCHANGED <<index, indexedTx, query, codecVars, sideVars>>

\* Connection::get: the stored document, if any; nothing is written
Get(c, id) ==
    /\ query[c].st = "idle"
    /\ cdoc' = [cdoc EXCEPT ![c] =
                    IF docs[id].live
                    THEN ClientDoc(Header(id, docs[id].revision), docs[id].contents)
                    ELSE NoClientDoc]
    /\ cdoc'[c] # cdoc[c]
    /\ UNCHANGED <<dbVars, res, query, codecVars, sideVars>>

\* the operations a caller can put in a transaction of its own
ClientOps(c) ==
    {OpInsert(id, k) : id \in {None} \cup {Some(i) : i \in DocIds}, k \in Contents}
    \cup (IF cdoc[c].has
          THEN {OpUpdate(cdoc[c].header, k) : k \in Contents} \cup {OpDelete(cdoc[c].header)}
          ELSE {})

\* a caller submits a transaction of two operations through apply_transaction;
\* the call's record keeps how many operations were applied before the one that
\* failed, and that operation
Transact(c) ==
    \E o1 \in ClientOps(c), o2 \in ClientOps(c) :
        LET tx == <<o1, o2>>
            out == TryTransaction(tx)
            ret == apply_transaction(out)
        IN  /\ CanSubmit(c, out)
            /\ Commit(out)
            /\ res' = [res EXCEPT ![c] = Call("transaction",
                                             IF out.st = "ok"
                                             THEN [n |-> Len(tx), applied |-> Len(tx), failed |-> None]
                                             ELSE [n |-> Len(tx), applied |-> out.applied,
                                                   failed |-> Some(tx[out.applied + 1])],
                                             ret, lastTx')]
            /\ UNCHANGED <<cdoc, index, indexedTx, query, codecVars, sideVars>>

\* ------------------------------------------------------------------------
\* The view by_contents, its index and the View query builder
\* ------------------------------------------------------------------------

AccessPolicies == {"UpdateBefore", "UpdateAfter", "NoUpdate"}

\* the entry the view by_contents maps a document to
MapDocument(id, doc) == [source |-> id, key |-> doc.contents]

MapAll(ds) == {MapDocument(i, ds[i]) : i \in {j \in DocIds : ds[j].live}}

\* View::new: no key filter, UpdateBefore, ascending, no limit
View_new == [key |-> None, access_policy |-> "UpdateBefore", sort |-> "Ascending", limit |-> None]

\* View::with_access_policy
View_with_access_policy(view, policy) == [view EXCEPT !.access_policy = policy]

\* a query that hands NoUpdate to Connection::query whatever the builder holds
View_query_NoUpdate(view) ==
    [key |-> view.key, order |-> view.sort, limit |-> view.limit,
     access_policy |-> "NoUpdate"]

\* View::query: the arguments handed to Connection::query
View_query(view) ==
    [key |-> view.key, order |-> view.sort, limit |-> view.limit,
     access_policy |-> view.access_policy]

IdleQuery == [st |-> "idle"]

\* a caller builds a view query with an access policy and issues it
QueryStart(c, policy) ==
    LET view == View_with_access_policy(View_new, policy)
    IN  /\ query[c].st = "idle"
        /\ query' = [query EXCEPT ![c] =
                        [st |-> "pending", view |-> view, args |-> View_query(view),
                         reqTx |-> lastTx]]
        /\ UNCHANGED <<dbVars, cdoc, res, codecVars, sideVars>>

\* the view's mapper brings the index up to the last committed transaction
IndexUpdate ==
    /\ indexedTx < lastTx
    /\ index' = MapAll(docs)
    /\ indexedTx' = lastTx
    /\ UNCHANGED <<docs, nextId, lastTx, executed, clientVars, codecVars, sideVars>>

\* whether Connection::query may answer from the index as it is: UpdateBefore
\* waits for the index to reflect the transactions committed at the request
MayAnswer(args, reqTx) == args.access_policy = "UpdateBefore" => indexedTx >= reqTx

\* Connection::query returns the entries of the index
QueryReturn(c) ==
    /\ query[c].st = "pending"
    /\ MayAnswer(query[c].args, query[c].reqTx)
    /\ query' = [query EXCEPT ![c] =
                    [st |-> "returned", view |-> @.view, args |-> @.args, reqTx |-> @.reqTx,
                     seenTx |-> indexedTx, results |-> index]]
    /\ UNCHANGED <<dbVars, cdoc, res, codecVars, sideVars>>

\* the caller has read the results
QueryDone(c) ==
    /\ query[c].st = "returned"
    /\ query' = [query EXCEPT ![c] = IdleQuery]
    /\ UNCHANGED <<dbVars, cdoc, res, codecVars, sideVars>>

\* ------------------------------------------------------------------------
\* The database and its callers
\* ------------------------------------------------------------------------

DbInit ==
    /\ docs = [i \in DocIds |-> NoDoc]
    /\ nextId = 1
    /\ lastTx = 0
    /\ executed = <<>>
    /\ index = {}
    /\ indexedTx = 0
    /\ cdoc = [c \in Clients |-> NoClientDoc]
    /\ res = [c \in Clients |-> NoCall]
    /\ query = [c \in Clients |-> IdleQuery]

CodecIdle ==
    /\ keyType = UnitType
    /\ keyA = Unit
    /\ keyB = Unit
    /\ encA = NotRun
    /\ encB = NotRun
    /\ decA = NotRun
    /\ pc = "idle"

\* nothing read back, no range, nothing listed, an empty storage and key-value store
RawIdle ==
    /\ raw = <<>>
    /\ decRaw = NotRun
    /\ reEnc = NotRun
    /\ ser = NotRun

RangeIdle ==
    /\ range = NotRun
    /\ rangeSer = NotRun
    /\ rangeDe = NotRun

ListIdle ==
    /\ logLen = 0
    /\ listing = NotRun

StorageIdle ==
    /\ databases = {}
    /\ storageRes = NotRun

\* the keys of the one namespace used
KvKeys == {"a", "b"}

NoEntry == [present |-> FALSE, value |-> 0, expiration |-> None]

KvIdle ==
    /\ kv = [k \in KvKeys |-> NoEntry]
    /\ now = 0
    /\ kvRes = NotRun

QueryKeyIdle ==
    /\ qkey = NotRun
    /\ qser = NotRun
    /\ qde = NotRun
    /\ qraw = NotRun
    /\ qrawDe = NotRun

StdRangeIdle ==
    /\ stdRange = NotRun

EntryIdle ==
    /\ rawValue = NotRun
    /\ deser = NotRun

FutureIdle ==
    /\ future = NotRun
    /\ listRequests = <<>>

MoreIdle == QueryKeyIdle /\ StdRangeIdle /\ EntryIdle /\ FutureIdle

SideIdle == RawIdle /\ RangeIdle /\ ListIdle /\ StorageIdle /\ KvIdle /\ MoreIdle

Init == DbInit /\ CodecIdle /\ SideIdle

OptionalIds == {None} \cup {Some(i) : i \in DocIds}

\* one caller reading documents and submitting transactions of two operations
Next ==
    \/ \E id \in DocIds : Get("x", id)
    \/ Transact("x")

Spec == Init /\ [][Next]_vars

\* two callers racing on the same documents through the facade
ConcNext ==
    \/ \E c \in Clients, id \in OptionalIds, k \in Contents : Insert(c, id, k)
    \/ \E c \in Clients, k \in Contents : Update(c, k)
    \/ \E c \in Clients : Delete(c)
    \/ \E c \in Clients, id \in DocIds : Get(c, id)

ConcSpec == Init /\ [][ConcNext]_vars

\* two callers using the single-document helpers insert and delete only
HelperNext ==
    \/ \E c \in Clients, id \in OptionalIds, k \in Contents : Insert(c, id, k)
    \/ \E c \in Clients : Delete(c)
    \/ \E c \in Clients, id \in DocIds : Get(c, id)

HelperSpec == Init /\ [][HelperNext]_vars

\* a writer, and a reader querying the view while the index is brought up to date
QueryNext ==
    \/ \E id \in OptionalIds, k \in Contents : Insert("x", id, k)
    \/ \E k \in Contents : Update("x", k)
    \/ Delete("x")
    \/ \E id \in DocIds : Get("x", id)
    \/ \E policy \in AccessPolicies : QueryStart("y", policy)
    \/ IndexUpdate
    \/ QueryReturn("y")
    \/ QueryDone("y")

QuerySpec == Init /\ [][QueryNext]_vars

\* ------------------------------------------------------------------------
\* The codec exercise: encode two keys of one type, then decode the first
\* ------------------------------------------------------------------------

CodecInit ==
    /\ keyType \in KeyTypes
    /\ keyA \in Values(keyType)
    /\ keyB \in Values(keyType)
    /\ encA = NotRun
    /\ encB = NotRun
    /\ decA = NotRun
    /\ pc = "start"
    /\ DbInit
    /\ SideIdle

Encode ==
    /\ pc = "start"
    /\ encA' = as_big_endian_bytes(keyType, keyA)
    /\ encB' = as_big_endian_bytes(keyType, keyB)
    /\ pc' = "encoded"
    /\ UNCHANGED <<keyType, keyA, keyB, decA, dbVars, clientVars, sideVars>>

Decode ==
    /\ pc = "encoded"
    /\ encA.st = "ok"
    /\ decA' = from_big_endian_bytes(keyType, encA.val)
    /\ pc' = "decoded"
    /\ UNCHANGED <<keyType, keyA, keyB, encA, encB, dbVars, clientVars, sideVars>>

CodecNext == Encode \/ Decode

CodecSpec == CodecInit /\ [][CodecNext]_vars

\* ------------------------------------------------------------------------
\* Stored entries: Map::serialized, and decoding bytes read back
\* ------------------------------------------------------------------------

\* view::Error::KeySerialization(error)
KeySerialization(e) == [kind |-> "KeySerialization", detail |-> e]

\* serde_cbor::to_vec(&()) of the entry's value
CborUnit == <<246>>

\* Map::serialized: the entry with its key as bytes; an error of the key's
\* encoding is returned as KeySerialization, a panic of it unwinds through
Map_serialized(T, map) ==
    LET key == as_big_endian_bytes(T, map.key)
    IN  IF key.st = "panic" THEN Panic
        ELSE IF key.st = "err" THEN Err(KeySerialization(key.err))
        ELSE Ok([source |-> map.source, key |-> key.val, value |-> CborUnit])

\* bytes drawn for the strings read back: ASCII, UTF-8 lead and continuation
\* bytes, and the extremes
RawByteSamples == {0, 97, 128, 191, 195, 255}

RawInit ==
    /\ keyType \in KeyTypes
    /\ keyA \in Values(keyType)
    /\ keyB = keyA
    /\ raw \in SeqsUpTo(RawByteSamples, MaxRawLen)
    /\ encA = NotRun
    /\ encB = NotRun
    /\ decA = NotRun
    /\ decRaw = NotRun
    /\ reEnc = NotRun
    /\ ser = NotRun
    /\ pc = "start"
    /\ DbInit
    /\ RangeIdle /\ ListIdle /\ StorageIdle /\ KvIdle /\ MoreIdle

\* the entry Map { source: 1, key: keyA, value: () } is serialized
Serialize ==
    /\ pc = "start"
    /\ encA' = as_big_endian_bytes(keyType, keyA)
    /\ ser' = Map_serialized(keyType, [source |-> 1, key |-> keyA])
    /\ pc' = "serialized"
    /\ UNCHANGED <<keyType, keyA, keyB, encB, decA, raw, decRaw, reEnc,
                   dbVars, clientVars, moreVars, rangeVars, listVars, storageVars, kvVars>>

\* the bytes read back are decoded as a key of the type
DecodeRaw ==
    /\ pc = "serialized"
    /\ decRaw' = from_big_endian_bytes(keyType, raw)
    /\ pc' = "decoded"
    /\ UNCHANGED <<keyType, keyA, keyB, encA, encB, decA, raw, reEnc, ser,
                   dbVars, clientVars, moreVars, rangeVars, listVars, storageVars, kvVars>>

\* the decoded key is encoded again
ReEncode ==
    /\ pc = "decoded"
    /\ decRaw.st = "ok"
    /\ reEnc' = as_big_endian_bytes(keyType, decRaw.val)
    /\ pc' = "reencoded"
    /\ UNCHANGED <<keyType, keyA, keyB, encA, encB, decA, raw, decRaw, ser,
                   dbVars, clientVars, moreVars, rangeVars, listVars, storageVars, kvVars>>

RawNext == Serialize \/ DecodeRaw \/ ReEncode

RawSpec == RawInit /\ [][RawNext]_vars

\* ------------------------------------------------------------------------
\* Range<T> and Bound<T>, and their byte forms
\* ------------------------------------------------------------------------

Unbounded == [b |-> "Unbounded"]

Included(v) == [b |-> "Included", v |-> v]

Excluded(v) == [b |-> "Excluded", v |-> v]

Range(start, end) == [start |-> start, end |-> end]

\* Bound::as_big_endian_bytes: the bound with its value encoded
Bound_as_big_endian_bytes(T, bound) ==
    IF bound.b = "Unbounded" THEN Ok(Unbounded)
    ELSE LET bytes == as_big_endian_bytes(T, bound.v)
         IN  IF bytes.st # "ok" THEN bytes
             ELSE IF bound.b = "Included" THEN Ok(Included(bytes.val))
             ELSE Ok(Excluded(bytes.val))

\* Bound::deserialize: the bound with its bytes decoded
Bound_deserialize(T, bound) ==
    IF bound.b = "Unbounded" THEN Ok(Unbounded)
    ELSE LET value == from_big_endian_bytes(T, bound.v)
         IN  IF value.st # "ok" THEN value
             ELSE IF bound.b = "Included" THEN Ok(Included(value.val))
             ELSE Ok(Excluded(value.val))

\* Range::as_big_endian_bytes: start, then end
Range_as_big_endian_bytes(T, r) ==
    LET start == Bound_as_big_endian_bytes(T, r.start)
    IN  IF start.st # "ok" THEN start
        ELSE LET end == Bound_as_big_endian_bytes(T, r.end)
             IN  IF end.st # "ok" THEN end
                 ELSE Ok(Range(start.val, end.val))

\* Range::deserialize: both fields are read from self.start
Range_deserialize(T, r) ==
    LET start == Bound_deserialize(T, r.start)
    IN  IF start.st # "ok" THEN start
        ELSE LET end == Bound_deserialize(T, r.start)
             IN  IF end.st # "ok" THEN end
                 ELSE Ok(Range(start.val, end.val))

Bounds(T) ==
    {Unbounded} \cup {Included(v) : v \in Values(T)} \cup {Excluded(v) : v \in Values(T)}

\* the key types ranges are drawn over
RangeKeyTypes == {I8, U16, BytesType, StringType, UnitType, OptionType(I8)}

RangeInit ==
    /\ keyType \in RangeKeyTypes
    /\ range \in {Range(a, b) : a \in Bounds(keyType), b \in Bounds(keyType)}
    /\ rangeSer = NotRun
    /\ rangeDe = NotRun
    /\ keyA = Unit
    /\ keyB = Unit
    /\ encA = NotRun
    /\ encB = NotRun
    /\ decA = NotRun
    /\ pc = "start"
    /\ DbInit
    /\ RawIdle /\ ListIdle /\ StorageIdle /\ KvIdle /\ MoreIdle

\* QueryKey::serialized of a Range: the range goes to the server as bytes
SerializeRange ==
    /\ pc = "start"
    /\ rangeSer' = Range_as_big_endian_bytes(keyType, range)
    /\ pc' = "range_serialized"
    /\ UNCHANGED <<keyType, keyA, keyB, encA, encB, decA, range, rangeDe,
                   dbVars, clientVars, moreVars, rawVars, listVars, storageVars, kvVars>>

\* QueryKey::deserialized of a Range: the server reads the range back
DeserializeRange ==
    /\ pc = "range_serialized"
    /\ rangeSer.st = "ok"
    /\ rangeDe' = Range_deserialize(keyType, rangeSer.val)
    /\ pc' = "range_deserialized"
    /\ UNCHANGED <<keyType, keyA, keyB, encA, encB, decA, range, rangeSer,
                   dbVars, clientVars, moreVars, rawVars, listVars, storageVars, kvVars>>

RangeNext == SerializeRange \/ DeserializeRange

RangeSpec == RangeInit /\ [][RangeNext]_vars

\* ------------------------------------------------------------------------
\* Listing the executed transactions
\* ------------------------------------------------------------------------

\* records returned when no result_limit is given
DefaultLimit == 1000

\* records returned at most, whatever result_limit is
HardLimit == 100000

\* the limit a call is served with, without the hard limit
EffectiveLimit_NoHardLimit(result_limit) ==
    IF result_limit.some THEN result_limit.val ELSE DefaultLimit

\* the limit a call is served with
EffectiveLimit(result_limit) ==
    MinOf(IF result_limit.some THEN result_limit.val ELSE DefaultLimit, HardLimit)

\* The log listed holds the Executed records with ids 1..n. The records a call
\* returns are consecutive in id order and are kept as the id of the first and
\* their number: the ids first, first + 1, ..., first + count - 1.
list_executed_transactions(n, starting_id, result_limit) ==
    LET first == IF starting_id.some THEN MaxOf(starting_id.val, 1) ELSE 1
        stored == IF first > n THEN 0 ELSE n - first + 1
    IN  Ok([first |-> first, count |-> MinOf(stored, EffectiveLimit(result_limit))])

\* the lengths of the log listed: short ones, and those around the two limits
LogLens ==
    (0..MaxOver) \cup {DefaultLimit + d : d \in (0 - MaxOver)..MaxOver}
                 \cup {HardLimit + d : d \in (0 - MaxOver)..MaxOver}

StartingIds(n) == {None} \cup {Some(i) : i \in {0, 1, 2, n, n + 1}}

ResultLimits ==
    {None} \cup {Some(l) : l \in {0, 1, DefaultLimit + 1, HardLimit, HardLimit + 1}}

\* a call and its result; page counts the calls of the listing it continues
Listed(starting_id, result_limit, page, result) ==
    [st |-> result.st, starting_id |-> starting_id, result_limit |-> result_limit,
     page |-> page, first |-> result.val.first, count |-> result.val.count]

ListInit ==
    /\ logLen \in LogLens
    /\ listing = NotRun
    /\ DbInit /\ CodecIdle
    /\ RawIdle /\ RangeIdle /\ StorageIdle /\ KvIdle /\ MoreIdle

\* a call of list_executed_transactions
List ==
    \E starting_id \in StartingIds(logLen), result_limit \in ResultLimits :
        /\ listing' = Listed(starting_id, result_limit, 1,
                             list_executed_transactions(logLen, starting_id, result_limit))
        /\ UNCHANGED <<logLen, codecVars, dbVars, clientVars, moreVars,
                       rawVars, rangeVars, storageVars, kvVars>>

\* the caller goes on from the last record it has seen: starting_id is that id + 1
ListMore ==
    /\ listing.st = "ok"
    /\ listing.count > 0
    /\ listing.page < MaxPages
    /\ LET starting_id == Some(listing.first + listing.count)
       IN  listing' = Listed(starting_id, listing.result_limit, listing.page + 1,
                             list_executed_transactions(logLen, starting_id,
                                                        listing.result_limit))
    /\ UNCHANGED <<logLen, codecVars, dbVars, clientVars, moreVars,
                   rawVars, rangeVars, storageVars, kvVars>>

\* a transaction commits while the log is being listed
LogAppend ==
    /\ logLen + 1 \in LogLens
    /\ logLen' = logLen + 1
    /\ UNCHANGED <<listing, codecVars, dbVars, clientVars, moreVars,
                   rawVars, rangeVars, storageVars, kvVars>>

ListNext == List \/ ListMore \/ LogAppend

ListSpec == ListInit /\ [][ListNext]_vars

\* ------------------------------------------------------------------------
\* The View builder
\* ------------------------------------------------------------------------

QueryKey_Matches(key) == [q |-> "Matches", key |-> key]

QueryKey_Range(r) == [q |-> "Range", range |-> r]

QueryKey_Multiple(keys) == [q |-> "Multiple", keys |-> keys]

\* View::with_key
View_with_key(view, key) == [view EXCEPT !.key = Some(QueryKey_Matches(key))]

\* View::with_keys
View_with_keys(view, keys) == [view EXCEPT !.key = Some(QueryKey_Multiple(keys))]

\* a with_key_range that leaves a key filter already set in place
View_with_key_range_KeepKey(view, r) ==
    IF view.key.some THEN view ELSE [view EXCEPT !.key = Some(QueryKey_Range(r))]

\* View::with_key_range
View_with_key_range(view, r) == [view EXCEPT !.key = Some(QueryKey_Range(r))]

\* View::ascending
View_ascending(view) == [view EXCEPT !.sort = "Ascending"]

\* View::descending
View_descending(view) == [view EXCEPT !.sort = "Descending"]

\* View::limit
View_limit(view, maximum_results) == [view EXCEPT !.limit = Some(maximum_results)]

\* the keys, key lists and ranges given to the setters
ViewKeys == Contents

ViewKeyLists == SeqsUpTo(ViewKeys, MaxLimit)

ViewRanges == {Range(a, b) : a \in {Unbounded, Included(1)}, b \in {Unbounded, Excluded(2)}}

ViewLimits == 0..MaxLimit

\* the call of a setter: its name and, under that name, its argument
Setter(name, arg) == [name |-> name, arg |-> [n \in {name} |-> arg]]

SetterArg(last) == last.arg[last.name]

Building(view, last) == [st |-> "building", view |-> view, last |-> last]

\* connection.view::<V>(): a fresh builder
ViewBuild(c) ==
    /\ query[c].st = "idle"
    /\ query' = [query EXCEPT ![c] = Building(View_new, Setter("new", Unit))]
    /\ UNCHANGED <<dbVars, cdoc, res, codecVars, sideVars>>

\* a fluent setter takes the builder and gives it back
ViewSet(c, last, view) ==
    /\ query[c].st = "building"
    /\ query' = [query EXCEPT ![c] = Building(view, last)]
    /\ UNCHANGED <<dbVars, cdoc, res, codecVars, sideVars>>

ViewWithKey(c) ==
    \E key \in ViewKeys :
        ViewSet(c, Setter("with_key", key), View_with_key(query[c].view, key))

ViewWithKeys(c) ==
    \E keys \in ViewKeyLists :
        ViewSet(c, Setter("with_keys", keys), View_with_keys(query[c].view, keys))

ViewWithKeyRange(c) ==
    \E r \in ViewRanges :
        ViewSet(c, Setter("with_key_range", r), View_with_key_range(query[c].view, r))

ViewWithAccessPolicy(c) ==
    \E policy \in AccessPolicies :
        ViewSet(c, Setter("with_access_policy", policy),
                View_with_access_policy(query[c].view, policy))

ViewAscending(c) == ViewSet(c, Setter("ascending", Unit), View_ascending(query[c].view))

ViewDescending(c) == ViewSet(c, Setter("descending", Unit), View_descending(query[c].view))

ViewLimit(c) ==
    \E maximum_results \in ViewLimits :
        ViewSet(c, Setter("limit", maximum_results),
                View_limit(query[c].view, maximum_results))

\* View::query: the builder is consumed and Connection::query is called
ViewQuery(c) ==
    /\ query[c].st = "building"
    /\ query' = [query EXCEPT ![c] =
                    [st |-> "pending", view |-> @.view, args |-> View_query(@.view),
                     reqTx |-> lastTx]]
    /\ UNCHANGED <<dbVars, cdoc, res, codecVars, sideVars>>

BuilderNext ==
    \/ ViewBuild("y")
    \/ ViewWithKey("y")
    \/ ViewWithKeys("y")
    \/ ViewWithKeyRange("y")
    \/ ViewWithAccessPolicy("y")
    \/ ViewAscending("y")
    \/ ViewDescending("y")
    \/ ViewLimit("y")
    \/ ViewQuery("y")
    \/ QueryReturn("y")
    \/ QueryDone("y")

BuilderSpec == Init /\ [][BuilderNext]_vars

\* ------------------------------------------------------------------------
\* Storage: the databases and their names
\* ------------------------------------------------------------------------

\* A name is the sequence of its chars. The chars drawn: letters of both cases,
\* a digit, the two punctuation chars a name may hold, and one it may not.
Letters == {"a", "b", "A", "B"}

Digits == {"1"}

IsAlphanumeric(ch) == ch \in Letters \cup Digits

to_ascii_lowercase(ch) ==
    CASE ch = "A" -> "a"
      [] ch = "B" -> "b"
      [] OTHER -> ch

\* the name with every char in lower case
Lowercase(name) == [i \in 1..Len(name) |-> to_ascii_lowercase(name[i])]

\* the name must begin with an alphanumeric char, and every char after it must
\* be alphanumeric, a period or a hyphen
ValidDatabaseName(name) ==
    /\ Len(name) > 0
    /\ IsAlphanumeric(name[1])
    /\ \A i \in 2..Len(name) : IsAlphanumeric(name[i]) \/ name[i] \in {".", "-"}

InvalidDatabaseName(name) == [kind |-> "InvalidDatabaseName", name |-> name]

DatabaseNotFound(name) == [kind |-> "DatabaseNotFound", name |-> name]

DatabaseNameAlreadyTaken(name) == [kind |-> "DatabaseNameAlreadyTaken", name |-> name]

\* a lookup of the name that tells the cases of letters apart
NameTaken_CaseSensitive(dbs, name) == {d \in dbs : d = name}

\* the databases the name refers to: names are case insensitive
NameTaken(dbs, name) == {d \in dbs : Lowercase(d) = Lowercase(name)}

\* create_database_with_schema: the result and the databases after the call
create_database(dbs, name, only_if_needed) ==
    IF ~ValidDatabaseName(name)
    THEN [ret |-> Err(InvalidDatabaseName(name)), dbs |-> dbs]
    ELSE IF NameTaken(dbs, name) # {}
    THEN [ret |-> IF only_if_needed THEN Ok(Unit) ELSE Err(DatabaseNameAlreadyTaken(name)),
          dbs |-> dbs]
    ELSE [ret |-> Ok(Unit), dbs |-> dbs \cup {name}]

\* delete_database: the result and the databases after the call
delete_database(dbs, name) ==
    IF NameTaken(dbs, name) = {}
    THEN [ret |-> Err(DatabaseNotFound(name)), dbs |-> dbs]
    ELSE [ret |-> Ok(Unit), dbs |-> dbs \ NameTaken(dbs, name)]

\* the names given to the storage
NameSamples ==
    {<<>>, <<"a">>, <<"A">>, <<"1">>, <<"a", "b">>, <<"A", "B">>, <<"a", "B">>,
     <<"a", "-", "1">>, <<"A", "-", "1">>, <<"a", ".", "b">>,
     <<"-", "a">>, <<".", "a">>, <<"a", "/", "b">>}

StorageCall(op, name, only_if_needed, ret) ==
    [st |-> "called", op |-> op, name |-> name, only_if_needed |-> only_if_needed,
     ret |-> ret]

StorageInit ==
    /\ StorageIdle
    /\ DbInit /\ CodecIdle
    /\ RawIdle /\ RangeIdle /\ ListIdle /\ KvIdle /\ MoreIdle

CreateDatabase ==
    \E name \in NameSamples, only_if_needed \in BOOLEAN :
        LET out == create_database(databases, name, only_if_needed)
        IN  /\ Cardinality(out.dbs) <= MaxDatabases
            /\ databases' = out.dbs
            /\ storageRes' = StorageCall("create_database", name, only_if_needed, out.ret)
            /\ UNCHANGED <<codecVars, dbVars, clientVars, moreVars,
                           rawVars, rangeVars, listVars, kvVars>>

DeleteDatabase ==
    \E name \in NameSamples :
        LET out == delete_database(databases, name)
        IN  /\ databases' = out.dbs
            /\ storageRes' = StorageCall("delete_database", name, FALSE, out.ret)
            /\ UNCHANGED <<codecVars, dbVars, clientVars, moreVars,
                           rawVars, rangeVars, listVars, kvVars>>

StorageNext == CreateDatabase \/ DeleteDatabase

StorageSpec == StorageInit /\ [][StorageNext]_vars

\* ------------------------------------------------------------------------
\* The key-value store
\* ------------------------------------------------------------------------

KvValues == {1, 2}

\* expirations are instants of the clock
Expirations == {None} \cup {Some(t) : t \in 1..MaxTime}

KeyChecks == {"None", "IfPresent", "IfAbsent"}

Entry(value, expiration) == [present |-> TRUE, value |-> value, expiration |-> expiration]

\* an entry is seen whatever its expiration
Visible_IgnoreExpiration(entry, t) == entry.present

\* a key at or past its expiration is invisible
Visible(entry, t) ==
    entry.present /\ (entry.expiration.some => t < entry.expiration.val)

MissingKey == [kind |-> "MissingKey"]

KeyExists == [kind |-> "KeyExists"]

\* set(ns, key, value, expiration, check): the result, and the store after it
kv_set(store, t, key, value, expiration, check) ==
    LET present == Visible(store[key], t)
    IN  IF check = "IfAbsent" /\ present
        THEN [ret |-> Err(KeyExists), kv |-> store]
        ELSE IF check = "IfPresent" /\ ~present
        THEN [ret |-> Err(MissingKey), kv |-> store]
        ELSE [ret |-> Ok(Unit), kv |-> [store EXCEPT ![key] = Entry(value, expiration)]]

\* a call of set and its result; n counts the calls
KvCall(n, key, value, expiration, check, ret) ==
    [st |-> "called", op |-> "set", n |-> n, key |-> key, value |-> value,
     expiration |-> expiration, check |-> check, ret |-> ret]

KvCalls == IF kvRes.st = "called" THEN kvRes.n ELSE 0

KvInit ==
    /\ KvIdle
    /\ DbInit /\ CodecIdle
    /\ RawIdle /\ RangeIdle /\ ListIdle /\ StorageIdle /\ MoreIdle

KvSet ==
    /\ KvCalls < MaxSets
    /\ \E key \in KvKeys, value \in KvValues, expiration \in Expirations,
          check \in KeyChecks :
          LET out == kv_set(kv, now, key, value, expiration, check)
          IN  /\ kv' = out.kv
              /\ kvRes' = KvCall(KvCalls + 1, key, value, expiration, check, out.ret)
    /\ UNCHANGED <<now, codecVars, dbVars, clientVars, moreVars,
                   rawVars, rangeVars, listVars, storageVars>>

\* the clock advances
KvTick ==
    /\ now < MaxTime
    /\ now' = now + 1
    /\ UNCHANGED <<kv, kvRes, codecVars, dbVars, clientVars, moreVars,
                   rawVars, rangeVars, listVars, storageVars>>

\* an expired key is reclaimed
KvReclaim ==
    /\ \E key \in KvKeys :
          /\ kv[key].present
          /\ ~Visible(kv[key], now)
          /\ kv' = [kv EXCEPT ![key] = NoEntry]
    /\ UNCHANGED <<now, kvRes, codecVars, dbVars, clientVars, moreVars,
                   rawVars, rangeVars, listVars, storageVars>>

KvNext == KvSet \/ KvTick \/ KvReclaim

KvSpec == KvInit /\ [][KvNext]_vars

\* ------------------------------------------------------------------------
\* QueryKey: a key filter on its way to the server and back
\* ------------------------------------------------------------------------

\* Error::Database with the message of the view error
Database(e) == [kind |-> "Database", message |-> e]

\* the keys of a list as bytes, in order: the first that fails ends the
\* conversion (collect into a Result), a panic unwinds through
RECURSIVE Multiple_as_big_endian_bytes(_, _)
Multiple_as_big_endian_bytes(T, keys) ==
    IF keys = <<>> THEN Ok(<<>>)
    ELSE LET key == as_big_endian_bytes(T, Head(keys))
         IN  IF key.st = "panic" THEN Panic
             ELSE IF key.st = "err" THEN Err(Database(KeySerialization(key.err)))
             ELSE LET rest == Multiple_as_big_endian_bytes(T, Tail(keys))
                  IN  IF rest.st # "ok" THEN rest
                      ELSE Ok(<<key.val>> \o rest.val)

\* the byte strings of a list as keys, in order: the first that fails ends the
\* conversion
RECURSIVE Multiple_from_big_endian_bytes(_, _)
Multiple_from_big_endian_bytes(T, keys) ==
    IF keys = <<>> THEN Ok(<<>>)
    ELSE LET key == from_big_endian_bytes(T, Head(keys))
         IN  IF key.st = "panic" THEN Panic
             ELSE IF key.st = "err" THEN Err(Database(KeySerialization(key.err)))
             ELSE LET rest == Multiple_from_big_endian_bytes(T, Tail(keys))
                  IN  IF rest.st # "ok" THEN rest
                      ELSE Ok(<<key.val>> \o rest.val)

\* the result of a key conversion as the result of the QueryKey's
QueryKey_map_err(r) ==
    IF r.st = "err" THEN Err(Database(KeySerialization(r.err))) ELSE r

\* QueryKey::serialized
QueryKey_serialized(T, q) ==
    CASE q.q = "Matches" ->
            LET key == QueryKey_map_err(as_big_endian_bytes(T, q.key))
            IN  IF key.st # "ok" THEN key ELSE Ok(QueryKey_Matches(key.val))
      [] q.q = "Range" ->
            LET r == QueryKey_map_err(Range_as_big_endian_bytes(T, q.range))
            IN  IF r.st # "ok" THEN r ELSE Ok(QueryKey_Range(r.val))
      [] q.q = "Multiple" ->
            LET keys == Multiple_as_big_endian_bytes(T, q.keys)
            IN  IF keys.st # "ok" THEN keys ELSE Ok(QueryKey_Multiple(keys.val))

\* QueryKey::deserialized
QueryKey_deserialized(T, q) ==
    CASE q.q = "Matches" ->
            LET key == QueryKey_map_err(from_big_endian_bytes(T, q.key))
            IN  IF key.st # "ok" THEN key ELSE Ok(QueryKey_Matches(key.val))
      [] q.q = "Range" ->
            LET r == QueryKey_map_err(Range_deserialize(T, q.range))
            IN  IF r.st # "ok" THEN r ELSE Ok(QueryKey_Range(r.val))
      [] q.q = "Multiple" ->
            LET keys == Multiple_from_big_endian_bytes(T, q.keys)
            IN  IF keys.st # "ok" THEN keys ELSE Ok(QueryKey_Multiple(keys.val))

\* the key types of the filters
QueryKeyTypes == {I8, U16, StringType, UnitType, OptionType(I8), OptionType(BytesType)}

\* the keys drawn for lists and ranges: of Vec<u8> and String the short ones
RECURSIVE FilterKeys(_)
FilterKeys(T) ==
    CASE T.k \in {"bytes", "string"} -> {v \in Values(T) : Len(v) <= 1}
      [] T.k = "option" -> {None} \cup {Some(x) : x \in FilterKeys(T.of)}
      [] OTHER -> Values(T)

QueryKeysOver(keys, all) ==
    {QueryKey_Matches(k) : k \in all}
    \cup {QueryKey_Multiple(ks) : ks \in SeqsUpTo(keys, MaxKeys)}
    \cup {QueryKey_Range(Range(a, b)) :
            a \in {Unbounded} \cup {Included(k) : k \in keys},
            b \in {Unbounded} \cup {Included(k) : k \in keys} \cup {Excluded(k) : k \in keys}}

\* the byte strings a server is sent: well and badly formed for the key types
ServerBytes == {<<>>, <<97>>, <<255>>, <<0, 97>>}

QueryKeyInit ==
    /\ keyType \in QueryKeyTypes
    /\ keyA = Unit
    /\ keyB = Unit
    /\ encA = NotRun
    /\ encB = NotRun
    /\ decA = NotRun
    /\ pc = "start"
    /\ DbInit
    /\ RawIdle /\ RangeIdle /\ ListIdle /\ StorageIdle /\ KvIdle /\ MoreIdle

\* the client turns the filter of a query into bytes
SerializeQueryKey ==
    /\ qkey = NotRun /\ qraw = NotRun
    /\ \E q \in QueryKeysOver(FilterKeys(keyType), Values(keyType)) :
          /\ qkey' = q
          /\ qser' = QueryKey_serialized(keyType, q)
    /\ UNCHANGED <<qde, qraw, qrawDe, codecVars, dbVars, clientVars,
                   stdVars, entryVars, futureVars,
                   rawVars, rangeVars, listVars, storageVars, kvVars>>

\* the server reads the filter back
DeserializeQueryKey ==
    /\ qser.st = "ok"
    /\ qde = NotRun
    /\ qde' = QueryKey_deserialized(keyType, qser.val)
    /\ UNCHANGED <<qkey, qser, qraw, qrawDe, codecVars, dbVars, clientVars,
                   stdVars, entryVars, futureVars,
                   rawVars, rangeVars, listVars, storageVars, kvVars>>

\* the server reads a filter whose bytes are any
DeserializeServerBytes ==
    /\ qkey = NotRun /\ qraw = NotRun
    /\ \E q \in QueryKeysOver(ServerBytes, ServerBytes) :
          /\ qraw' = q
          /\ qrawDe' = QueryKey_deserialized(keyType, q)
    /\ UNCHANGED <<qkey, qser, qde, codecVars, dbVars, clientVars,
                   stdVars, entryVars, futureVars,
                   rawVars, rangeVars, listVars, storageVars, kvVars>>

QueryKeyNext == SerializeQueryKey \/ DeserializeQueryKey \/ DeserializeServerBytes

QueryKeySpec == QueryKeyInit /\ [][QueryKeyNext]_vars

\* ------------------------------------------------------------------------
\* The ranges of std::ops as Range<T>
\* ------------------------------------------------------------------------

\* a..b, a.., ..b, a..=b, ..=b and ..
StdRange(start, end) == [std |-> "Range", start |-> start, end |-> end]

StdRangeFrom(start) == [std |-> "RangeFrom", start |-> start]

StdRangeTo(end) == [std |-> "RangeTo", end |-> end]

StdRangeInclusive(start, end) == [std |-> "RangeInclusive", start |-> start, end |-> end]

StdRangeToInclusive(end) == [std |-> "RangeToInclusive", end |-> end]

StdRangeFull == [std |-> "RangeFull"]

\* a <= b in the order of T
KeyLessEq(T, a, b) == a = b \/ KeyLess(T, a, b)

\* contains() of the ranges of std::ops
StdRange_contains(T, r, x) ==
    CASE r.std = "Range" -> KeyLessEq(T, r.start, x) /\ KeyLess(T, x, r.end)
      [] r.std = "RangeFrom" -> KeyLessEq(T, r.start, x)
      [] r.std = "RangeTo" -> KeyLess(T, x, r.end)
      [] r.std = "RangeInclusive" -> KeyLessEq(T, r.start, x) /\ KeyLessEq(T, x, r.end)
      [] r.std = "RangeToInclusive" -> KeyLessEq(T, x, r.end)
      [] r.std = "RangeFull" -> TRUE

\* a conversion that takes the end of a..=b as excluded
Range_from_InclusiveAsExcluded(r) ==
    CASE r.std = "Range" -> Range(Included(r.start), Excluded(r.end))
      [] r.std = "RangeFrom" -> Range(Included(r.start), Unbounded)
      [] r.std = "RangeTo" -> Range(Unbounded, Excluded(r.end))
      [] r.std = "RangeInclusive" -> Range(Included(r.start), Excluded(r.end))
      [] r.std = "RangeToInclusive" -> Range(Unbounded, Included(r.end))
      [] r.std = "RangeFull" -> Range(Unbounded, Unbounded)

\* impl From<std::ops::Range*<T>> for Range<T>
Range_from(r) ==
    CASE r.std = "Range" -> Range(Included(r.start), Excluded(r.end))
      [] r.std = "RangeFrom" -> Range(Included(r.start), Unbounded)
      [] r.std = "RangeTo" -> Range(Unbounded, Excluded(r.end))
      [] r.std = "RangeInclusive" -> Range(Included(r.start), Included(r.end))
      [] r.std = "RangeToInclusive" -> Range(Unbounded, Included(r.end))
      [] r.std = "RangeFull" -> Range(Unbounded, Unbounded)

\* impl RangeBounds<T> for Range<T>: the bounds as std::ops::Bound
Range_start_bound(r) == r.start

Range_end_bound(r) == r.end

\* RangeBounds::contains, over start_bound() and end_bound()
Range_contains(T, r, x) ==
    /\ LET start == Range_start_bound(r)
       IN  CASE start.b = "Included" -> KeyLessEq(T, start.v, x)
             [] start.b = "Excluded" -> KeyLess(T, start.v, x)
             [] start.b = "Unbounded" -> TRUE
    /\ LET end == Range_end_bound(r)
       IN  CASE end.b = "Included" -> KeyLessEq(T, x, end.v)
             [] end.b = "Excluded" -> KeyLess(T, x, end.v)
             [] end.b = "Unbounded" -> TRUE

StdRanges(T) ==
    {StdRange(a, b) : a \in Values(T), b \in Values(T)}
    \cup {StdRangeFrom(a) : a \in Values(T)}
    \cup {StdRangeTo(b) : b \in Values(T)}
    \cup {StdRangeInclusive(a, b) : a \in Values(T), b \in Values(T)}
    \cup {StdRangeToInclusive(b) : b \in Values(T)}
    \cup {StdRangeFull}

StdRangeKeyTypes == {I8, U16, BytesType, OptionType(I8)}

StdRangeInit ==
    /\ keyType \in StdRangeKeyTypes
    /\ stdRange \in StdRanges(keyType)
    /\ keyA = Unit
    /\ keyB = Unit
    /\ encA = NotRun
    /\ encB = NotRun
    /\ decA = NotRun
    /\ pc = "start"
    /\ DbInit
    /\ RawIdle /\ RangeIdle /\ ListIdle /\ StorageIdle /\ KvIdle
    /\ QueryKeyIdle /\ EntryIdle /\ FutureIdle

\* range.into(), as with_key_range does it
ConvertRange ==
    /\ pc = "start"
    /\ range' = Range_from(stdRange)
    /\ pc' = "converted"
    /\ UNCHANGED <<keyType, keyA, keyB, encA, encB, decA, rangeSer, rangeDe, dbVars,
                   clientVars, moreVars, rawVars, listVars, storageVars, kvVars>>

\* the converted range goes to the server as bytes
SerializeConverted ==
    /\ pc = "converted"
    /\ rangeSer' = Range_as_big_endian_bytes(keyType, range)
    /\ pc' = "range_serialized"
    /\ UNCHANGED <<keyType, keyA, keyB, encA, encB, decA, range, rangeDe, dbVars,
                   clientVars, moreVars, rawVars, listVars, storageVars, kvVars>>

StdRangeNext == ConvertRange \/ SerializeConverted

StdRangeSpec == StdRangeInit /\ [][StdRangeNext]_vars

\* ------------------------------------------------------------------------
\* Stored entries read back
\* ------------------------------------------------------------------------

\* view::Error of a value that is no CBOR of the value type
Serialization == [kind |-> "Serialization"]

\* serde_cbor::from_slice::<()>(bytes): null is the unit value
Cbor_from_slice(bytes) == IF bytes = CborUnit THEN Ok(Unit) ELSE Err(Serialization)

\* a deserialized() that reads the value before the key
Serialized_deserialized_ValueFirst(T, s) ==
    LET value == Cbor_from_slice(s.value)
    IN  IF value.st = "err" THEN value
        ELSE LET key == from_big_endian_bytes(T, s.key)
             IN  IF key.st = "err" THEN Err(KeySerialization(key.err))
                 ELSE Ok([source |-> s.source, key |-> key.val, value |-> value.val])

\* Serialized::deserialized: the key, then the value
Serialized_deserialized(T, s) ==
    LET key == from_big_endian_bytes(T, s.key)
    IN  IF key.st = "err" THEN Err(KeySerialization(key.err))
        ELSE LET value == Cbor_from_slice(s.value)
             IN  IF value.st = "err" THEN value
                 ELSE Ok([source |-> s.source, key |-> key.val, value |-> value.val])

\* value bytes of stored entries: the unit value, and none at all
ValueBytes == {CborUnit, <<>>}

EntryInit ==
    /\ keyType \in KeyTypes
    /\ raw \in SeqsUpTo(RawByteSamples, MaxRawLen)
    /\ rawValue \in ValueBytes
    /\ deser = NotRun
    /\ decRaw = NotRun
    /\ reEnc = NotRun
    /\ ser = NotRun
    /\ keyA = Unit
    /\ keyB = Unit
    /\ encA = NotRun
    /\ encB = NotRun
    /\ decA = NotRun
    /\ pc = "start"
    /\ DbInit
    /\ RangeIdle /\ ListIdle /\ StorageIdle /\ KvIdle
    /\ QueryKeyIdle /\ StdRangeIdle /\ FutureIdle

\* the key bytes of the entry are decoded as a key of the type
DecodeKey ==
    /\ pc = "start"
    /\ decRaw' = from_big_endian_bytes(keyType, raw)
    /\ pc' = "key_decoded"
    /\ UNCHANGED <<keyType, keyA, keyB, encA, encB, decA, raw, reEnc, ser, rawValue, deser,
                   dbVars, clientVars, qkeyVars, stdVars, futureVars, rangeVars, listVars,
                   storageVars, kvVars>>

\* the entry is deserialized into a Map
DeserializeEntry ==
    /\ pc = "key_decoded"
    /\ deser' = Serialized_deserialized(keyType, [source |-> 1, key |-> raw,
                                                   value |-> rawValue])
    /\ pc' = "deserialized"
    /\ UNCHANGED <<keyType, keyA, keyB, encA, encB, decA, raw, decRaw, reEnc, ser, rawValue,
                   dbVars, clientVars, qkeyVars, stdVars, futureVars, rangeVars, listVars,
                   storageVars, kvVars>>

EntryNext == DecodeKey \/ DeserializeEntry

EntrySpec == EntryInit /\ [][EntryNext]_vars

\* ------------------------------------------------------------------------
\* The List future of Collection::list
\* ------------------------------------------------------------------------

\* ListBuilder: what the setters configure until the first poll
ListBuilder(ids, sort, limit) == [range |-> ids, sort |-> sort, limit |-> limit]

\* ListState::Pending(Some(builder)); polls and out are the executor's view
\* of the future: how often it was polled and what the last call returned
ListPending(builder) ==
    [state |-> "Pending", builder |-> Some(builder), inner |-> None,
     polls |-> 0, out |-> "none", dropped |-> FALSE]

\* Collection::list(ids)
Collection_list(ids) == ListPending(ListBuilder(ids, "Ascending", None))

\* List::ascending, List::descending, List::limit: builder() is reached only
\* in Pending(Some(_)); in any other state it is unreachable!(), and the
\* List, taken by value, is dropped by the unwinding
List_ascending(f) ==
    IF f.state = "Pending" /\ f.builder.some
    THEN [f EXCEPT !.builder = Some([f.builder.val EXCEPT !.sort = "Ascending"])]
    ELSE [f EXCEPT !.out = "panic", !.dropped = TRUE]

List_descending(f) ==
    IF f.state = "Pending" /\ f.builder.some
    THEN [f EXCEPT !.builder = Some([f.builder.val EXCEPT !.sort = "Descending"])]
    ELSE [f EXCEPT !.out = "panic", !.dropped = TRUE]

List_limit(f, maximum_results) ==
    IF f.state = "Pending" /\ f.builder.some
    THEN [f EXCEPT !.builder = Some([f.builder.val EXCEPT !.limit = Some(maximum_results)])]
    ELSE [f EXCEPT !.out = "panic", !.dropped = TRUE]

\* the boxed async block: created with the builder's fields moved into it,
\* it calls Connection::list when first polled, waits for it on later polls
\* and panics when polled after it has completed
BoxFuture_poll(f, requests, ready) ==
    LET block == f.inner.val
        polled == [f EXCEPT !.polls = @ + 1]
        after == IF ready = "Poll::Pending" THEN "awaiting" ELSE "done"
    IN  CASE block.at = "created" ->
                [future |-> [polled EXCEPT !.inner = Some([block EXCEPT !.at = after]),
                                           !.out = ready],
                 requests |-> Append(requests, [ids |-> block.range, order |-> block.sort,
                                                limit |-> block.limit])]
          [] block.at = "awaiting" ->
                [future |-> [polled EXCEPT !.inner = Some([block EXCEPT !.at = after]),
                                           !.out = ready],
                 requests |-> requests]
          [] OTHER ->
                [future |-> [polled EXCEPT !.out = "panic"], requests |-> requests]

\* the same with an Executing arm that builds the request anew on every poll
List_poll_Reinvoke(f, requests, ready) ==
    LET b == f.builder.val
        executing ==
            IF f.state = "Pending"
            THEN [f EXCEPT !.state = "Executing", !.builder = None,
                           !.inner = Some([at |-> "created", range |-> b.range,
                                           sort |-> b.sort, limit |-> b.limit])]
            ELSE [f EXCEPT !.inner = Some([f.inner.val EXCEPT !.at = "created"])]
    IN  BoxFuture_poll(executing, requests, ready)

\* <List as Future>::poll: the Pending arm takes the builder, boxes the async
\* block, stores Executing and polls again, which lands in the Executing arm
List_poll(f, requests, ready) ==
    LET b == f.builder.val
        executing ==
            IF f.state = "Pending"
            THEN [f EXCEPT !.state = "Executing", !.builder = None,
                           !.inner = Some([at |-> "created", range |-> b.range,
                                           sort |-> b.sort, limit |-> b.limit])]
            ELSE f
    IN  BoxFuture_poll(executing, requests, ready)

\* the ids asked for: any R: Into<Range<u64>>, here ranges of std::ops
ListRanges == {StdRangeFull, StdRange(1, MaxDocId), StdRangeInclusive(1, MaxDocId),
               StdRangeFrom(MaxDocId)}

\* what a poll of the connection's list future may answer
PollAnswers == {"Poll::Pending", "Ready(Ok)", "Ready(Err)"}

FutureInit ==
    /\ FutureIdle
    /\ DbInit
    /\ CodecIdle
    /\ RawIdle /\ RangeIdle /\ ListIdle /\ StorageIdle /\ KvIdle
    /\ QueryKeyIdle /\ StdRangeIdle /\ EntryIdle

FutureFrame ==
    UNCHANGED <<codecVars, dbVars, clientVars, rawVars, rangeVars, listVars,
                storageVars, kvVars, qkeyVars, stdVars, entryVars>>

\* collection.list(ids)
CollectionList ==
    /\ future = NotRun
    /\ \E ids \in ListRanges : future' = Collection_list(ids)
    /\ UNCHANGED listRequests
    /\ FutureFrame

Live == future # NotRun /\ ~future.dropped

ListAscending ==
    /\ Live
    /\ future' = List_ascending(future)
    /\ UNCHANGED listRequests
    /\ FutureFrame

ListDescending ==
    /\ Live
    /\ future' = List_descending(future)
    /\ UNCHANGED listRequests
    /\ FutureFrame

ListLimit ==
    /\ Live
    /\ \E n \in 0..MaxLimit : future' = List_limit(future, n)
    /\ UNCHANGED listRequests
    /\ FutureFrame

\* the executor polls the future
Poll ==
    /\ Live
    /\ future.polls < MaxPolls
    /\ \E ready \in PollAnswers :
          LET polled == List_poll(future, listRequests, ready)
          IN  /\ future' = polled.future
              /\ listRequests' = polled.requests
    /\ FutureFrame

FutureNext == CollectionList \/ ListAscending \/ ListDescending \/ ListLimit \/ Poll

FutureSpec == FutureInit /\ [][FutureNext]_vars

\* ------------------------------------------------------------------------
\* Properties of the key codec
\* ------------------------------------------------------------------------

\* C1: key codec round-trip. For every supported key type and every value whose
\* encoding succeeds, decoding the encoded bytes succeeds and returns the value.
C1_RoundTrip == pc = "decoded" => decA = Ok(keyA)

\* a negative signed key inside an Option has been encoded and decoded
C1_Witness ==
    /\ pc = "decoded"
    /\ keyType = OptionType(I8)
    /\ keyA = Some(-1)
    /\ encA = Ok(<<255>>)
    /\ decA = Ok(Some(-1))

\* C2: key codec order. For every key type, the signed integers included, and
\* every pair of values a, b: a < b in the natural order exactly when the
\* encoding of a is lexicographically less than the encoding of b.
C2_OrderPreserved ==
    (pc = "encoded" /\ encA.st = "ok" /\ encB.st = "ok")
        => (KeyLess(keyType, keyA, keyB) <=> LexLess(encA.val, encB.val))

\* C3: a signed integer of width w is encoded as the big-endian bytes of the
\* value with its sign bit flipped (v XOR 2^(w-1), that is v + 2^(w-1) read as
\* unsigned), so that every negative value encodes below every non-negative one.
C3_SignBitFlipped ==
    (pc = "encoded" /\ keyType.k = "int" /\ keyType.signed)
        => /\ encA = Ok(to_be_bytes(keyA + Pow2(8 * keyType.w - 1), keyType.w))
           /\ (keyA < 0 /\ keyB >= 0) => LexLess(encA.val, encB.val)

\* ------------------------------------------------------------------------
\* Properties of transactions
\* ------------------------------------------------------------------------

\* caller c made a call in this step
Called(c) == res'[c] # res[c]

\* caller c made a call in this step and it returned an error
Failed(c) == Called(c) /\ res'[c].st = "err"

\* C4: transaction atomicity. If any operation of a transaction submitted
\* through apply_transaction fails, none of its operations is applied: every
\* document has the same existence, contents and revision after the failed
\* call as before it, and no Executed record is appended.
C4_Atomicity ==
    [][\A c \in Clients :
          Failed(c) => docs' = docs /\ executed' = executed /\ lastTx' = lastTx]_vars

\* a transaction of two operations failed at its second operation, after the
\* first had been applied to the working copy, and a transaction was committed before
C4_Witness ==
    /\ res["x"].st = "err"
    /\ res["x"].op = "transaction"
    /\ res["x"].arg.applied = 1
    /\ lastTx >= 1

\* C5: the ids of the committed transactions start at 1, are strictly
\* increasing in commit order and have no gaps; each commit gets the id
\* following the last committed one and a failed transaction consumes none.
C5_TransactionIds ==
    /\ lastTx = Len(executed)
    /\ \A i \in 1..Len(executed) : executed[i].transaction_id = i

\* two transactions were committed and the caller's last one failed
C5_Witness ==
    /\ Len(executed) >= 2
    /\ executed[2].transaction_id = 2
    /\ res["x"].st = "err"

\* the transaction that inserted document id, as the document stood after
\* transaction t (0: never inserted)
Born(id, t) ==
    LET ins == {k \in 1..MinOf(t, Len(executed)) :
                  \E n \in 1..Len(executed[k].changes) :
                      /\ executed[k].changes[n].id = id
                      /\ executed[k].changes[n].kind = "DocumentUpdated"
                      /\ executed[k].changes[n].seq = 1}
    IN  IF ins = {} THEN 0 ELSE CHOOSE k \in ins : \A m \in ins : m <= k

\* call r modified (or tried to modify) a document it held the header of
Modifies(r) == r.st # "none" /\ r.op \in {"update", "delete"}

\* no two committed modifications of one document start from the same revision
NoLostUpdate ==
    \A x \in Clients : \A y \in Clients \ {x} :
        (/\ Modifies(res[x]) /\ Modifies(res[y])
         /\ res[x].st = "ok" /\ res[y].st = "ok"
         /\ res[x].arg.header = res[y].arg.header)
            => Born(res[x].arg.header.id, res[x].tx) # Born(res[y].arg.header.id, res[y].tx)

\* a modification from the revision another caller's committed update started
\* from fails with DocumentConflict, and the document is the committed one's
LoserConflicts ==
    \A x \in Clients : \A y \in Clients \ {x} :
        (/\ Failed(y) /\ Modifies(res'[y])
         /\ Modifies(res[x]) /\ res[x].op = "update" /\ res[x].st = "ok"
         /\ res[x].arg.header = res'[y].arg.header
         /\ Born(res[x].arg.header.id, res[x].tx) = Born(res[x].arg.header.id, lastTx))
            => LET h == res[x].arg.header
               IN  /\ res'[y].ret = Err(DocumentConflict(CollectionName, h.id))
                   /\ docs'[h.id].live
                   /\ docs'[h.id].contents = res[x].arg.contents
                   /\ docs'[h.id].revision.seq = h.revision.seq + 1

UniqueKeys ==
    \A i \in DocIds, j \in DocIds :
        (i # j /\ docs[i].live /\ docs[j].live)
            => UniqueKey(docs[i].contents) # UniqueKey(docs[j].contents)

\* the document an operation names: the header's, or the id given to an insert
Names(op, id) ==
    /\ op.kind = "Update" => op.header.id = id
    /\ (op.kind = "Insert" /\ op.id.some) => op.id.val = id

\* a transaction that fails with UniqueKeyViolation applies nothing; the error
\* names the view, the document of the operation that failed as the conflicting
\* one and a different document as the existing one, which, when the failing
\* operation is the transaction's first, is a stored live document with its key
ViolationReported ==
    \A c \in Clients :
        (/\ Failed(c) /\ res'[c].op = "transaction"
         /\ res'[c].ret.err.kind = "UniqueKeyViolation")
            => LET e == res'[c].ret.err
                   op == res'[c].arg.failed.val
               IN  /\ docs' = docs /\ executed' = executed /\ lastTx' = lastTx
                   /\ e.view = UniqueViewName
                   /\ e.existing_document_id # e.conflicting_document_id
                   /\ op.kind \in {"Insert", "Update"}
                   /\ Names(op, e.conflicting_document_id)
                   /\ res'[c].arg.applied = 0
                        => /\ docs[e.existing_document_id].live
                           /\ UniqueKey(docs[e.existing_document_id].contents)
                                = UniqueKey(op.contents)

\* C7: after every commit no two live documents map to the same key of the
\* unique view; a transaction in which a document emits a key already emitted
\* by a different live document fails as a whole with UniqueKeyViolation
\* carrying the view, the existing and the conflicting document id, and none
\* of its other operations is applied.
C7_UniqueView == [][UniqueKeys' /\ ViolationReported]_vars

\* a transaction whose first operation was applied failed at its second, an
\* insert of document 2, with UniqueKeyViolation against document 1
C7_Witness ==
    /\ res["x"].st = "err"
    /\ res["x"].op = "transaction"
    /\ res["x"].arg.applied = 1
    /\ res["x"].ret.err.kind = "UniqueKeyViolation"
    /\ res["x"].arg.failed = Some(OpInsert(Some(2), 1))
    /\ res["x"].ret.err.existing_document_id = 1
    /\ res["x"].ret.err.conflicting_document_id = 2

\* the digest of every stored revision is the hash of the stored contents
DigestOfContents ==
    \A i \in DocIds : docs[i].live => docs[i].revision.hash = Digest(docs[i].contents)

\* a successful update: the stored and the returned revision follow the old one by 1
UpdateAdvances ==
    \A c \in Clients :
        (Called(c) /\ res'[c].op = "update" /\ res'[c].st = "ok")
            => LET i == res'[c].arg.header.id
               IN  /\ docs'[i].revision.seq = docs[i].revision.seq + 1
                   /\ docs'[i].revision.hash = Digest(res'[c].arg.contents)
                   /\ docs'[i].contents = res'[c].arg.contents
                   /\ cdoc'[c].header.revision = docs'[i].revision
                   /\ cdoc'[c].header.revision.seq = res'[c].arg.header.revision.seq + 1

\* failed calls and reads leave every revision as it was
OthersKeepRevision ==
    /\ (\A c \in Clients : Failed(c) => docs' = docs)
    /\ (res' = res => docs' = docs)

\* over a document's life the sequence number only grows, by 1 at a time
SeqGrows ==
    \A i \in DocIds :
        (docs[i].live /\ docs'[i].live /\ docs'[i] # docs[i])
            => docs'[i].revision.seq = docs[i].revision.seq + 1

\* C8: each successful update of a document produces a revision whose
\* sequence number is the previous one plus 1 and whose digest is the hash of
\* the new contents; failed updates and reads leave the revision unchanged, so
\* the sequence number strictly increases over the document's life.
C8_RevisionSequence ==
    [][DigestOfContents' /\ UpdateAdvances /\ OthersKeepRevision /\ SeqGrows]_vars

\* x's update of document 1 committed, giving x the revision 2 that is stored,
\* and y's update from the old revision failed
C8_Witness ==
    /\ Modifies(res["x"]) /\ res["x"].op = "update" /\ res["x"].st = "ok"
    /\ res["x"].arg.header.id = 1
    /\ cdoc["x"].header.revision.seq = 2
    /\ docs[1].revision = cdoc["x"].header.revision
    /\ docs[1].revision.hash = Digest(res["x"].arg.contents)
    /\ Modifies(res["y"]) /\ res["y"].op = "update" /\ res["y"].st = "err"

\* C9: inserting with a caller-supplied id that already exists fails with
\* DocumentConflict and changes nothing; an insert with an id that commits
\* stored its document under that id, which was free. So the same id inserted
\* twice leaves one document, that of the first insert, and one DocumentConflict.
C9_InsertWithId ==
    [][\A c \in Clients :
          (Called(c) /\ res'[c].op = "insert" /\ res'[c].arg.id.some)
              => LET i == res'[c].arg.id.val
                 IN  /\ docs[i].live
                        => /\ res'[c].ret = Err(DocumentConflict(CollectionName, i))
                           /\ docs' = docs /\ executed' = executed
                     /\ res'[c].st = "ok"
                        => /\ ~docs[i].live
                           /\ res'[c].ret.val.id = i
                           /\ docs'[i].live
                           /\ docs'[i].contents = res'[c].arg.contents
                           /\ \A j \in DocIds \ {i} : docs'[j] = docs[j]]_vars

\* x inserted a document with id 1, y inserted with id 1 again and got the
\* conflict; the document stored is x's
C9_Witness ==
    /\ res["x"].st = "ok" /\ res["x"].op = "insert" /\ res["x"].arg.id = Some(1)
    /\ res["y"].st = "err" /\ res["y"].op = "insert" /\ res["y"].arg.id = Some(1)
    /\ res["y"].ret = Err(DocumentConflict(CollectionName, 1))
    /\ res["y"].arg.contents # res["x"].arg.contents
    /\ docs[1].live /\ docs[1].contents = res["x"].arg.contents
    /\ Cardinality({i \in DocIds : docs[i].live}) = 1

\* the transactions up to t that changed document id
Changing(id, t) ==
    {k \in 1..MinOf(t, Len(executed)) :
        \E n \in 1..Len(executed[k].changes) : executed[k].changes[n].id = id}

\* the last transaction up to t that changed document id (0: none)
LastChange(id, t) ==
    IF Changing(id, t) = {} THEN 0
    ELSE CHOOSE k \in Changing(id, t) : \A m \in Changing(id, t) : m <= k

\* document id exists after transaction t: its last change wrote it
ExistsAt(id, t) ==
    /\ LastChange(id, t) > 0
    /\ LET ch == executed[LastChange(id, t)].changes
           last == CHOOSE n \in 1..Len(ch) :
                      /\ ch[n].id = id
                      /\ \A m \in 1..Len(ch) : ch[m].id = id => m <= n
       IN  ch[last].kind = "DocumentUpdated"

\* C10: a view query issued with access policy UpdateBefore returns only when
\* the index reflects every transaction committed when the query was issued:
\* its results are those of an index that has seen all of them, so they hold an
\* entry for every document those transactions wrote, the entry of the document
\* as it is stored unless a later transaction changed it, and none for a
\* document that was deleted.
C10_UpdateBefore ==
    [][\A c \in Clients :
          (/\ query[c].st = "pending" /\ query'[c].st = "returned"
           /\ query[c].view.access_policy = "UpdateBefore")
              => /\ query'[c].seenTx >= query[c].reqTx
                 /\ \A i \in DocIds :
                       /\ ExistsAt(i, query'[c].seenTx)
                            <=> \E m \in query'[c].results : m.source = i
                       /\ LastChange(i, lastTx) <= query[c].reqTx
                            => IF docs[i].live
                               THEN MapDocument(i, docs[i]) \in query'[c].results
                               ELSE \A m \in query'[c].results : m.source # i]_vars

\* an UpdateBefore query issued after a commit returned the committed document's
\* entry, read from an index that had been behind when the query was issued
C10_Witness ==
    /\ query["y"].st = "returned"
    /\ query["y"].view.access_policy = "UpdateBefore"
    /\ query["y"].reqTx = 2
    /\ query["y"].seenTx = 2
    /\ query["y"].results # {}

\* ------------------------------------------------------------------------
\* Properties of Option keys, of decoding and of ranges
\* ------------------------------------------------------------------------

\* C11: the Option codec. Encoding None gives the empty byte string and
\* encoding Some(x) gives exactly the encoding of x whenever that is not empty;
\* decoding gives None for the empty byte string and Some(decode(bytes)) for
\* every other one (the error of decode(bytes) when that fails).
C11_OptionCodec ==
    keyType.k = "option" =>
        /\ pc \in {"serialized", "decoded", "reencoded"} =>
              /\ ~keyA.some => encA = Ok(<<>>)
              /\ keyA.some =>
                    LET inner == as_big_endian_bytes(keyType.of, keyA.val)
                    IN  (inner.st = "ok" /\ inner.val # <<>>) => encA = inner
        /\ pc \in {"decoded", "reencoded"} =>
              /\ raw = <<>> => decRaw = Ok(None)
              /\ raw # <<>> =>
                    LET inner == from_big_endian_bytes(keyType.of, raw)
                    IN  IF inner.st = "ok" THEN decRaw = Ok(Some(inner.val))
                        ELSE decRaw = inner

\* Some(-128) of Option<i8> was encoded as the byte of -128, and the byte 0xff
\* read back was decoded as Some(-1)
C11_Witness ==
    /\ pc = "decoded"
    /\ keyType = OptionType(I8)
    /\ keyA = Some(-128)
    /\ encA = Ok(<<128>>)
    /\ raw = <<255>>
    /\ decRaw = Ok(Some(-1))

\* C12: encoding Some(x) when the encoding of x is empty (Some(()), Some of an
\* empty byte string) fails by returning an error value, KeySerialization from
\* Map::serialized; it neither returns bytes nor aborts the program.
C12_EmptySomeIsError ==
    (/\ pc \in {"serialized", "decoded", "reencoded"}
     /\ keyType.k = "option"
     /\ keyA.some
     /\ as_big_endian_bytes(keyType.of, keyA.val) = Ok(<<>>))
        => /\ encA.st = "err"
           /\ ser.st = "err"
           /\ ser.err.kind = "KeySerialization"

\* C13: the key codec is a bijection between values and encodings: whenever
\* from_big_endian_bytes(b) succeeds with v, as_big_endian_bytes(v) is b, for
\* every key type, the unit type included.
C13_DecodeEncode == pc = "reencoded" => reEnc = Ok(raw)

\* C14: Range byte round-trip. For every key type and every range, with any
\* combination of Unbounded, Included and Excluded bounds, serializing it with
\* Range::as_big_endian_bytes and deserializing the result with
\* Range::deserialize gives a range equal to it, start and end.
C14_RangeRoundTrip == pc = "range_deserialized" => rangeDe = Ok(range)

\* ------------------------------------------------------------------------
\* Properties of the facade, the listing, the view builder, storage and key-value
\* ------------------------------------------------------------------------

\* the error the engine answers an update of the document with header and
\* contents in the state before the call: the document is gone, or has another
\* revision, or its new contents clash with another document's unique key
UpdateError(header, e) ==
    IF ~docs[header.id].live THEN e = DocumentNotFound(CollectionName, header.id)
    ELSE IF docs[header.id].revision # header.revision
    THEN e = DocumentConflict(CollectionName, header.id)
    ELSE e.kind = "UniqueKeyViolation" /\ e.conflicting_document_id = header.id

\* C15: Connection::update. When apply_transaction succeeds, the caller's
\* document header is replaced by the header of the DocumentUpdated result, the
\* new revision; when it returns an error, that error is returned and the
\* caller's document header and contents are left as they were passed.
C15_UpdateFrame ==
    [][\A c \in Clients :
          (Called(c) /\ res'[c].op = "update")
              => LET a == res'[c].arg
                     id == a.header.id
                 IN  /\ res'[c].st = "ok" =>
                           /\ res'[c].ret = Ok(Unit)
                           /\ executed'[lastTx'].changes =
                                 <<[id |-> id, kind |-> "DocumentUpdated",
                                    seq |-> cdoc'[c].header.revision.seq]>>
                           /\ cdoc'[c].header = Header(id, docs'[id].revision)
                           /\ cdoc'[c].header # a.header
                           /\ cdoc'[c].contents = a.contents
                     /\ res'[c].st # "ok" =>
                           /\ res'[c].st = "err"
                           /\ UpdateError(a.header, res'[c].ret.err)
                           /\ cdoc'[c] = ClientDoc(a.header, a.contents)
                           /\ executed' = executed]_vars

\* x's update of the document it read failed with DocumentConflict and x still
\* holds the header it passed, with the contents it wanted to store; the update
\* of y, which made the conflict, gave y the header of revision 2
C15_Witness ==
    /\ Modifies(res["x"]) /\ res["x"].op = "update"
    /\ res["x"].ret = Err(DocumentConflict(CollectionName, 1))
    /\ cdoc["x"] = ClientDoc(res["x"].arg.header, res["x"].arg.contents)
    /\ cdoc["x"].header.revision.seq = 1
    /\ cdoc["x"].contents # docs[1].contents
    /\ Modifies(res["y"]) /\ res["y"].op = "update" /\ res["y"].st = "ok"
    /\ cdoc["y"].header = Header(1, docs[1].revision)
    /\ cdoc["y"].header.revision.seq = 2

\* the ids a listing returned
Returned(l) == l.first .. (l.first + l.count - 1)

\* the records returned are records of the log as it is at the call, none of them
\* below starting_id, and none of the log not below starting_id comes before the
\* first returned
FromStartingId ==
    listing.st = "ok" =>
        LET from == IF listing.starting_id.some THEN listing.starting_id.val ELSE 0
            last == listing.first + listing.count - 1
        IN  /\ listing.count >= 0
            /\ listing.count > 0 =>
                  /\ Returned(listing) \subseteq 1..logLen
                  /\ listing.first >= from
                  /\ listing.first - 1 \notin (1..logLen) \ (1..(from - 1))
            /\ (listing.count = 0 /\ EffectiveLimit(listing.result_limit) > 0)
                  => (1..logLen) \ (1..(from - 1)) = {}

\* no more records than the limits allow
WithinLimits ==
    listing.st = "ok" =>
        /\ listing.count <= HardLimit
        /\ ~listing.result_limit.some => listing.count <= DefaultLimit
        /\ listing.result_limit.some => listing.count <= listing.result_limit.val

\* going on from the last id seen + 1 returns the records that follow the last
\* one seen: the next id first, and nothing when the log had no more
Resumes ==
    (listing'.st = "ok" /\ listing'.page > 1) =>
        LET last == listing.first + listing.count - 1
        IN  /\ listing'.count > 0 => listing'.first = last + 1
            /\ (listing'.count = 0 /\ EffectiveLimit(listing'.result_limit) > 0)
                  => logLen' = last

\* C16: list_executed_transactions returns at most 1000 Executed records when no
\* result limit is given, and never more than 100000 whatever limit is asked
\* for; the records returned are those with an id of at least starting_id, in
\* increasing id order, so that passing the last id seen + 1 resumes the listing
\* without repeats or omissions.
C16_Listing ==
    [][listing' # listing => (FromStartingId' /\ WithinLimits' /\ Resumes)]_vars

\* a log of 100001 records listed with a limit of 100001: the first call returned
\* 100000 records, the second, from id 100001, the one that was left
C16_Witness ==
    /\ logLen = HardLimit + 1
    /\ listing.st = "ok"
    /\ listing.page = 2
    /\ listing.result_limit = Some(HardLimit + 1)
    /\ listing.starting_id = Some(HardLimit + 1)
    /\ listing.first = HardLimit + 1
    /\ listing.count = 1

\* the one field a setter writes
SetterField(last) ==
    CASE last.name \in {"with_key", "with_keys", "with_key_range"} -> "key"
      [] last.name = "with_access_policy" -> "access_policy"
      [] last.name \in {"ascending", "descending"} -> "sort"
      [] last.name = "limit" -> "limit"

\* the field holds what the setter was given
SetterWrote(view, last) ==
    CASE last.name = "with_key" ->
            view.key.some /\ view.key.val.q = "Matches" /\ view.key.val.key = SetterArg(last)
      [] last.name = "with_keys" ->
            view.key.some /\ view.key.val.q = "Multiple" /\ view.key.val.keys = SetterArg(last)
      [] last.name = "with_key_range" ->
            view.key.some /\ view.key.val.q = "Range" /\ view.key.val.range = SetterArg(last)
      [] last.name = "with_access_policy" -> view.access_policy = SetterArg(last)
      [] last.name = "ascending" -> view.sort = "Ascending"
      [] last.name = "descending" -> view.sort = "Descending"
      [] last.name = "limit" -> view.limit = Some(SetterArg(last))

ViewFields == {"key", "access_policy", "sort", "limit"}

\* C17: a View builder carries configuration only. A fresh builder has no key
\* filter, access policy UpdateBefore, ascending order and no limit; each fluent
\* setter changes its own field and no other (with_key, with_keys and
\* with_key_range replace one another, the last call wins); and the terminal
\* query passes on to the connection exactly the key filter, order, limit and
\* access policy the builder holds at that moment. No step of the builder
\* touches the database.
C17_ViewBuilder ==
    [][\A c \in Clients :
          LET q == query[c]
              r == query'[c]
          IN  /\ (q.st = "idle" /\ r.st = "building") =>
                    /\ r.view.key = None
                    /\ r.view.access_policy = "UpdateBefore"
                    /\ r.view.sort = "Ascending"
                    /\ r.view.limit = None
              /\ (q.st = "building" /\ r.st = "building") =>
                    /\ SetterWrote(r.view, r.last)
                    /\ \A f \in ViewFields \ {SetterField(r.last)} : r.view[f] = q.view[f]
              /\ (q.st = "building" /\ r.st = "pending") =>
                    /\ r.args.key = q.view.key
                    /\ r.args.order = q.view.sort
                    /\ r.args.limit = q.view.limit
                    /\ r.args.access_policy = q.view.access_policy
              /\ (q.st \in {"idle", "building"} /\ r.st \in {"building", "pending"})
                    => dbVars' = dbVars]_vars

\* a query issued from a builder whose every field was set, the key filter last
\* by with_key_range
C17_Witness ==
    /\ query["y"].st = "pending"
    /\ query["y"].view.key.some
    /\ query["y"].view.key.val.q = "Range"
    /\ query["y"].view.key.val.range = Range(Included(1), Excluded(2))
    /\ query["y"].view.sort = "Descending"
    /\ query["y"].view.limit = Some(1)
    /\ query["y"].view.access_policy = "NoUpdate"
    /\ query["y"].args = [key |-> query["y"].view.key, order |-> "Descending",
                          limit |-> Some(1), access_policy |-> "NoUpdate"]

\* two names equal but for the case of their letters
SameIgnoringCase(a, b) ==
    /\ Len(a) = Len(b)
    /\ \A i \in 1..Len(a) :
          \/ a[i] = b[i]
          \/ {a[i], b[i]} \in {{"a", "A"}, {"b", "B"}}

\* the name breaks the grammar of database names
ViolatesGrammar(name) ==
    \/ name = <<>>
    \/ \E i \in 1..Len(name) :
          /\ name[i] \notin {"a", "b", "A", "B", "1"}
          /\ i = 1 \/ name[i] \notin {".", "-"}

NoTwoNamesEqualIgnoringCase ==
    \A a \in databases : \A b \in databases : SameIgnoringCase(a, b) => a = b

\* C18: create_database with a name already used by an existing database,
\* compared case-insensitively, fails with DatabaseNameAlreadyTaken when
\* only_if_needed is false, and succeeds without creating or altering any database
\* when only_if_needed is true; a name violating the name grammar fails with
\* InvalidDatabaseName; in every case the set of databases holds no two names
\* equal ignoring case.
C18_CreateDatabase ==
    [][(storageRes' # storageRes /\ storageRes'.op = "create_database") =>
          LET name == storageRes'.name
              ret == storageRes'.ret
              used == \E d \in databases : SameIgnoringCase(d, name)
          IN  /\ (used /\ ~storageRes'.only_if_needed) =>
                    /\ ret.st = "err"
                    /\ ret.err = [kind |-> "DatabaseNameAlreadyTaken", name |-> name]
                    /\ databases' = databases
              /\ (used /\ storageRes'.only_if_needed) =>
                    /\ ret = Ok(Unit)
                    /\ databases' = databases
              /\ ViolatesGrammar(name) =>
                    /\ ret.st = "err"
                    /\ ret.err = [kind |-> "InvalidDatabaseName", name |-> name]
                    /\ databases' = databases
              /\ NoTwoNamesEqualIgnoringCase']_vars

\* the storage holds the databases "a" and "1", and the creation of "A" without
\* only_if_needed was refused
C18_Witness ==
    /\ databases = {<<"a">>, <<"1">>}
    /\ storageRes.st = "called"
    /\ storageRes.op = "create_database"
    /\ storageRes.name = <<"A">>
    /\ ~storageRes.only_if_needed
    /\ storageRes.ret = Err(DatabaseNameAlreadyTaken(<<"A">>))

\* the key has an entry in the store that has not expired at the instant t
PresentAt(store, key, t) ==
    /\ store[key].present
    /\ store[key].expiration.some => store[key].expiration.val > t

\* C19: key-value conditional set. A set with check IfAbsent on a key that is
\* present fails with KeyExists, and a set with check IfPresent on a key that is
\* absent (or expired) fails with MissingKey; in both failures the stored value
\* and expiration of every key are unchanged, and in all other cases the value
\* and the expiration of the key are replaced together.
C19_ConditionalSet ==
    [][(kvRes' # kvRes /\ kvRes'.op = "set") =>
          LET call == kvRes'
              present == PresentAt(kv, call.key, now)
              exists == call.check = "IfAbsent" /\ present
              missing == call.check = "IfPresent" /\ ~present
          IN  /\ exists => (call.ret.st = "err" /\ call.ret.err.kind = "KeyExists" /\ kv' = kv)
              /\ missing => (call.ret.st = "err" /\ call.ret.err.kind = "MissingKey" /\ kv' = kv)
              /\ (~exists /\ ~missing) =>
                    /\ call.ret.st = "ok"
                    /\ kv'[call.key].present
                    /\ kv'[call.key].value = call.value
                    /\ kv'[call.key].expiration = call.expiration
                    /\ \A other \in KvKeys \ {call.key} : kv'[other] = kv[other]]_vars

\* the key "a" was set to expire at 1; at 1 or later a set of it with IfPresent
\* was refused with MissingKey and the expired entry is as it was
C19_Witness ==
    /\ now >= 1
    /\ kv["a"] = Entry(1, Some(1))
    /\ kvRes.st = "called"
    /\ kvRes.key = "a"
    /\ kvRes.value = 2
    /\ kvRes.check = "IfPresent"
    /\ kvRes.ret = Err(MissingKey)

\* the number the bytes spell in base 256, the first byte the most significant
RECURSIVE Positional(_, _)
Positional(bytes, i) ==
    IF i > Len(bytes) THEN 0
    ELSE bytes[i] * 256 ^ (Len(bytes) - i) + Positional(bytes, i + 1)

\* enc holds the two's complement representation of v in T.w bytes, big end first
PlainBigEndian(T, v, enc) ==
    /\ enc.st = "ok"
    /\ Len(enc.val) = T.w
    /\ \A i \in 1..Len(enc.val) : enc.val[i] \in 0..255
    /\ Positional(enc.val, 1) = IF v < 0 THEN v + 256 ^ T.w ELSE v
    /\ v = IntMax(T) =>
          enc.val = [i \in 1..T.w |-> IF T.signed /\ i = 1 THEN 127 ELSE 255]

\* C20: for every primitive integer key type, signed or unsigned, and every value
\* v, as_big_endian_bytes(v) is the plain big-endian (two's complement) byte
\* representation of v, of the length of the width of the type in bytes; for the
\* maximum of the type these are the bytes 7f ff .. (signed) and ff ff ..
\* (unsigned).
C20_PlainBigEndian ==
    (pc \in {"encoded", "decoded"} /\ keyType.k = "int") =>
        /\ PlainBigEndian(keyType, keyA, encA)
        /\ PlainBigEndian(keyType, keyB, encB)

\* i16::MAX and i16::MIN encoded
C20_Witness ==
    /\ pc = "encoded"
    /\ keyType = I16
    /\ keyA = 32767
    /\ keyB = 0 - 32768
    /\ encA = Ok(<<127, 255>>)
    /\ encB = Ok(<<128, 0>>)

\* ------------------------------------------------------------------------
\* Properties of key filters, ranges, decoding, the List future and the helpers
\* ------------------------------------------------------------------------

\* the keys a filter holds: of a range, those of its bounds
KeysOf(q) ==
    CASE q.q = "Matches" -> <<q.key>>
      [] q.q = "Multiple" -> q.keys
      [] q.q = "Range" ->
            (IF q.range.start.b = "Unbounded" THEN <<>> ELSE <<q.range.start.v>>)
            \o (IF q.range.end.b = "Unbounded" THEN <<>> ELSE <<q.range.end.v>>)

\* the filter came back with its variant, Matches with its key, Multiple with its
\* keys in their order and number
SameFilter(q, back) ==
    /\ back.q = q.q
    /\ q.q = "Matches" => back.key = q.key
    /\ q.q = "Multiple" => back.keys = q.keys

\* C21: QueryKey::serialized followed by QueryKey::deserialized preserves the
\* filter: the variant (Matches, Range, Multiple) is unchanged, Matches(k) comes
\* back as Matches(k), Multiple(keys) with the same keys in the same order and
\* number; and if the encoding or the decoding of any single key fails, the whole
\* conversion returns an error, and no partial key list.
C21_FilterPreserved ==
    /\ qser.st # "none" =>
          /\ (\E i \in 1..Len(KeysOf(qkey)) :
                 as_big_endian_bytes(keyType, KeysOf(qkey)[i]).st # "ok") => qser.st = "err"
          /\ qser.st = "ok" => qser.val.q = qkey.q
    /\ qde.st # "none" => (qde.st = "ok" /\ SameFilter(qkey, qde.val))
    /\ qrawDe.st # "none" =>
          IF \E i \in 1..Len(KeysOf(qraw)) :
                from_big_endian_bytes(keyType, KeysOf(qraw)[i]).st # "ok"
          THEN qrawDe.st = "err"
          ELSE qrawDe.st = "ok" /\ qrawDe.val.q = qraw.q

\* the bounds of the converted range are of the kinds of the original
SameBoundKinds(r, converted) ==
    /\ converted.start.b =
          (IF r.std \in {"Range", "RangeFrom", "RangeInclusive"} THEN "Included"
           ELSE "Unbounded")
    /\ converted.end.b =
          (CASE r.std \in {"Range", "RangeTo"} -> "Excluded"
             [] r.std \in {"RangeInclusive", "RangeToInclusive"} -> "Included"
             [] r.std \in {"RangeFrom", "RangeFull"} -> "Unbounded")

\* C22: converting a standard range into the serializable Range preserves
\* membership. For each of a..b, a.., ..b, a..=b, ..=b and .., and every value x,
\* x lies within the converted Range (by its start_bound and end_bound) if and
\* only if x lies within the original range; start bounds are Included or
\* Unbounded and end bounds Excluded, Included or Unbounded, as in the original.
C22_StdRangeMembership ==
    (pc \in {"converted", "range_serialized"} /\ stdRange # NotRun) =>
        /\ \A x \in Values(keyType) :
              Range_contains(keyType, range, x) <=> StdRange_contains(keyType, stdRange, x)
        /\ SameBoundKinds(stdRange, range)

\* 1..=2 over i8 converted: 2 lies within, as in the original
C22_Witness ==
    /\ pc = "converted"
    /\ keyType = I8
    /\ stdRange = StdRangeInclusive(1, 2)
    /\ range = Range(Included(1), Included(2))
    /\ Range_contains(I8, range, 2)
    /\ ~Range_contains(I8, range, 126)

\* the chars whose UTF-8 is made of the bytes drawn for raw: NUL, a, U+C0, U+FF
CharsOfRawBytes == {0, 97, 192, 255}

\* the bytes are the UTF-8 of some string
IsUtf8(bytes) ==
    \E s \in SeqsUpTo(CharsOfRawBytes, Len(bytes)) : as_bytes(s) = bytes

\* the bytes are no key of the type: of the wrong length for an integer, no
\* UTF-8 for a String
InvalidKeyBytes(T, bytes) ==
    \/ T.k = "int" /\ Len(bytes) # T.w
    \/ T.k = "string" /\ ~IsUtf8(bytes)

\* C23: decoding invalid bytes returns an error and no key. For every fixed-width
\* integer type, from_big_endian_bytes of a byte sequence whose length differs
\* from the width of the type fails; for String, a byte sequence that is no valid
\* UTF-8 fails; and Serialized::deserialized reports such a failure as a
\* KeySerialization error instead of producing a Map.
C23_InvalidBytes ==
    InvalidKeyBytes(keyType, raw) =>
        /\ pc \in {"key_decoded", "deserialized"} => decRaw.st = "err"
        /\ pc = "deserialized" =>
              /\ deser.st = "err"
              /\ deser.err.kind = "KeySerialization"
              /\ deser.err.detail = decRaw.err

\* the byte ff read as a String key: no UTF-8, and the entry is not deserialized
C23_Witness ==
    /\ pc = "deserialized"
    /\ keyType = StringType
    /\ raw = <<255>>
    /\ decRaw.st = "err"
    /\ deser = Err(KeySerialization(decRaw.err))


\* C24: the List future starts Pending with the defaults ascending and no
\* limit; the first poll moves it to Executing and calls the connection's
\* list with the range, order and limit configured until then; it never
\* returns to Pending, and no later poll or setter makes another call.
C24_OneShot ==
    [][/\ future = NotRun /\ future' # NotRun =>
             /\ future'.state = "Pending"
             /\ future'.builder.val.sort = "Ascending"
             /\ future'.builder.val.limit = None
             /\ listRequests' = <<>>
       /\ future # NotRun /\ future.state = "Pending" /\ future'.polls > future.polls =>
             /\ future'.state = "Executing"
             /\ listRequests' = <<[ids |-> future.builder.val.range,
                                   order |-> future.builder.val.sort,
                                   limit |-> future.builder.val.limit]>>
       /\ future # NotRun /\ future.state = "Pending" /\ future'.polls = future.polls =>
             /\ future'.state = "Pending"
             /\ listRequests' = <<>>
       /\ future # NotRun /\ future.state = "Executing" =>
             /\ future'.state = "Executing"
             /\ listRequests' = listRequests
             /\ Len(listRequests) = 1]_vars

\* a future configured descending with a limit, polled three times: one call
C24_Witness ==
    /\ future # NotRun
    /\ future.state = "Executing"
    /\ future.polls = MaxPolls
    /\ future.out = "Ready(Ok)"
    /\ listRequests = <<[ids |-> StdRangeFull, order |-> "Descending", limit |-> Some(1)]>>


\* the one operation of the transaction a call of insert or delete stands for
HelperOperation(call) ==
    IF call.op = "insert" THEN OpInsert(call.arg.id, call.arg.contents)
    ELSE OpDelete(call.arg.header)

\* C25: a call of Connection::insert or Connection::delete is one transaction
\* of one operation, the Insert with the caller's optional id or the Delete
\* with the caller's header. When it commits, one transaction with one change
\* is executed, insert returns the header of its DocumentUpdated result and
\* delete returns success; when apply_transaction fails, the caller gets that
\* very error and no transaction is executed.
C25_SingleOperation ==
    [][\A c \in Clients :
          (Called(c) /\ res'[c].op \in {"insert", "delete"})
              => LET call == res'[c]
                     out == TryTransaction(<<HelperOperation(call)>>)
                     last == executed'[Len(executed')]
                 IN  /\ out.st = "ok"
                        => /\ Len(executed') = Len(executed) + 1
                           /\ last.transaction_id = lastTx'
                           /\ last.changes = <<Change(out.val.results[1])>>
                           /\ docs' = out.val.w.docs
                           /\ call.op = "insert"
                                => /\ out.val.results[1].kind = "DocumentUpdated"
                                   /\ call.ret = Ok(out.val.results[1].header)
                                   /\ call.arg.id.some => call.ret.val.id = call.arg.id.val
                           /\ call.op = "delete"
                                => /\ out.val.results[1].kind = "DocumentDeleted"
                                   /\ out.val.results[1].id = call.arg.header.id
                                   /\ call.ret = Ok(Unit)
                     /\ out.st # "ok"
                        => /\ call.ret = Err(out.err)
                           /\ executed' = executed
                           /\ lastTx' = lastTx
                           /\ docs' = docs]_vars

\* x inserted a document without an id, y read and deleted it, then x's
\* delete of the same document failed with DocumentNotFound: two transactions
\* were executed, of one change each
C25_Witness ==
    /\ res["y"].st = "ok" /\ res["y"].op = "delete" /\ res["y"].ret = Ok(Unit)
    /\ res["x"].st = "err" /\ res["x"].op = "delete"
    /\ res["x"].ret = Err(DocumentNotFound(CollectionName, res["x"].arg.header.id))
    /\ res["x"].arg.header = res["y"].arg.header
    /\ Len(executed) = 2
    /\ Len(executed[1].changes) = 1 /\ executed[1].changes[1].kind = "DocumentUpdated"
    /\ Len(executed[2].changes) = 1 /\ executed[2].changes[1].kind = "DocumentDeleted"
    /\ executed[2].changes[1].id = res["x"].arg.header.id

====
